---- MODULE Spec2Model ----
(***************************************************************************)
(* Verification model of the becertain RCA engine: the RCA job runner      *)
(* (services/rca_job_service.py), the two-tier key-value store             *)
(* (store/client.py, store/events.py, store/keys.py), the adaptive signal  *)
(* weights (engine/registry.py) and the analyzer orchestrator              *)
(* (engine/analyzer.py, engine/fetcher.py).                                *)
(*                                                                         *)
(* Each subsystem has its own specification (SpecJobs, SpecStore, ...);    *)
(* the variables of the other subsystems stay at their initial values.     *)
(***************************************************************************)
EXTENDS Integers, Sequences, FiniteSets, TLC

VARIABLES
    \* ---- services/rca_job_service.py ----
    cfgMaxConc,     \* settings.analyze_max_concurrency
    jobStatus,      \* RcaJob.status per job ("none" = no row yet)
    reportPayload,  \* RcaReport row per job: "absent", "stored" (result_payload set), "null"
    taskPc,         \* position of the job's _run_job task
    semFree,        \* free permits of RcaJobService._semaphore
    tasks,          \* keys of RcaJobService._tasks
    delPc,          \* delete_report per job: "idle" or "cancel_pending"
    stopping,       \* the event loop is being torn down
    wasCancelled,   \* history: the job's task received a CancelledError before it was done
    \* ---- store/client.py ----
    redisClient,    \* _redis_client is not None
    usingFallback,  \* _using_fallback
    retryAfter,     \* _retry_after_monotonic
    now,            \* time.monotonic(), in ticks
    initLock,       \* holder of _init_lock, or "free"
    primaryUp,      \* the primary store answers
    primaryKv,      \* plain keys held by the primary store (0 = absent)
    primaryLists,   \* list keys held by the primary store (<<>> = absent)
    fallback,       \* _fallback (0 = absent)
    fallbackLists,  \* _fallback_lists (<<>> = absent)
    callPc,         \* position of each caller inside a store operation
    lastDone,       \* history: the last operation that returned
    appendLog,      \* history: the store each list append went to, in append order
    connHist,       \* history: when connection attempts started and when the last one failed
    delHist,        \* history: per key, the values set before the last delete that returned
    \* ---- store/keys.py ----
    tenantOf,       \* tenant_id of each of the two concurrent requests
    written,        \* history: the store keys written, with the request that wrote each
    \* ---- engine/registry.py ----
    stored,         \* the weights payload held by the store for the tenant
    wstate,         \* the tenant's TenantState in TenantRegistry._states
    \* ---- engine/analyzer.py ----
    inp,            \* the request, the settings and the backends' answers of one analysis
    anPc,           \* position of run
    fetched,        \* logs_raw, traces_raw, slo_errors_raw, slo_total_raw
    found,          \* which signals produced findings
    lists,          \* metric_anomalies, change_points, root_causes, clusters, granger results
    warnings,       \* the warnings list of run
    report,         \* the AnalysisReport returned
    \* ---- engine/analyzer.py run and engine/fetcher.py fetch_metrics: the fan-out ----
    fanCfg,         \* settings.analyzer_max_parallel_metric_queries
    fanPc,          \* position of run in its fetch and metrics stages
    fetchPc,        \* state of the logs, traces and two SLO queries
    qPc,            \* state of each query of the metric batch
    fanSem,         \* free permits of fetch_metrics's semaphore
    \* ---- engine/analyzer.py: _dedupe_metric_anomalies on reordered input ----
    dedupItems,     \* the list passed to _dedupe_metric_anomalies, in its present order
    dedupRef,       \* the set returned for the order first presented
    dedupOut,       \* the list returned for the present order
    dedupPc,        \* "start" before the first call, "called" after a call, "reordered"
    \* ---- store/baseline.py: compute_and_persist for one (tenant, metric) ----
    blStored,       \* the baseline under keys.baseline(tenant, metric): {} or {Baseline}
    blLast,         \* what the last call loaded, computed and returned
    blCalls,        \* calls of compute_and_persist made
    \* ---- store/granger.py: save_and_merge for one (tenant, service) ----
    grStored,       \* the list under keys.granger(tenant, service)
    grPc,           \* per analysis: "idle", or "loaded" between its load and its redis_set
    grCached,       \* per analysis: the list its load returned
    grFresh,        \* per analysis: the fresh_results it was called with
    grSubmitted,    \* per pair: the greatest strength passed to save_and_merge so far
    grCalls,        \* calls of save_and_merge started
    \* ---- engine/analyzer.py: run from the quality gates to the AnalysisReport ----
    sevIn,          \* the signal lists of the analysis as they enter the report
    sevPc,          \* "idle", "gated" (quality gates returned) or "done" (report built)
    sevReport,      \* overall_severity and analysis_warnings of the AnalysisReport
    \* ---- main.py: _wait_for_all_bg and the readiness endpoint ----
    rdSettings,     \* settings.logs_backend, metrics_backend, traces_backend
    rdPc,           \* position of _wait_for_all_bg: "start", "gather", "finished", "cancelled"
    rdResult,       \* per check: "pending", "ok" or "exception" (result of wait_for)
    rdStatus,       \* _backend_status
    rdReady,        \* _backend_ready
    rdResp,         \* the last answer of GET /api/v1/ready
    \* ---- engine/slo/burn.py: evaluate ----
    sloIn,          \* the arguments of evaluate
    sloPc,          \* "idle", "called" or "returned"
    sloOut,         \* the list evaluate returned
    \* ---- engine/registry.py: concurrent TenantRegistry.update_weight calls ----
    rgStored,       \* the weights payload held by the store for the tenant
    rgStates,       \* TenantRegistry._states[tenant]: the id of a TenantState, -1 if absent
    rgObj,          \* the TenantState objects, by id
    rgPc,           \* position of each update_weight call
    rgRead,         \* what weight_store.load read for each call
    rgStart,        \* history: the update_count before the first call
    \* ---- engine/correlation/temporal.py: correlate ----
    corIn,          \* the arguments of correlate
    corPc,          \* "idle", "called" or "returned"
    corOut          \* the list of CorrelatedEvents correlate returned

jobVars == <<cfgMaxConc, jobStatus, reportPayload, taskPc, semFree, tasks, delPc, stopping,
             wasCancelled>>

storeVars == <<redisClient, usingFallback, retryAfter, now, initLock, primaryUp, primaryKv,
               primaryLists, fallback, fallbackLists, callPc, lastDone, appendLog, connHist, delHist>>

keyVars == <<tenantOf, written>>

weightVars == <<stored, wstate>>

anVars == <<inp, anPc, fetched, found, lists, warnings, report>>

fanVars == <<fanCfg, fanPc, fetchPc, qPc, fanSem>>

dedupVars == <<dedupItems, dedupRef, dedupOut, dedupPc>>

baselineVars == <<blStored, blLast, blCalls>>

grangerVars == <<grStored, grPc, grCached, grFresh, grSubmitted, grCalls>>

severityVars == <<sevIn, sevPc, sevReport>>

readyVars == <<rdSettings, rdPc, rdResult, rdStatus, rdReady, rdResp>>

sloVars == <<sloIn, sloPc, sloOut>>

registryVars == <<rgStored, rgStates, rgObj, rgPc, rgRead, rgStart>>

correlateVars == <<corIn, corPc, corOut>>

nonJobVars == <<storeVars, keyVars, weightVars, anVars, fanVars, dedupVars, baselineVars, grangerVars, severityVars, readyVars, sloVars, registryVars, correlateVars>>
nonStoreVars == <<jobVars, keyVars, weightVars, anVars, fanVars, dedupVars, baselineVars, grangerVars, severityVars, readyVars, sloVars, registryVars, correlateVars>>
nonKeyVars == <<jobVars, storeVars, weightVars, anVars, fanVars, dedupVars, baselineVars, grangerVars, severityVars, readyVars, sloVars, registryVars, correlateVars>>
nonWeightVars == <<jobVars, storeVars, keyVars, anVars, fanVars, dedupVars, baselineVars, grangerVars, severityVars, readyVars, sloVars, registryVars, correlateVars>>
nonAnVars == <<jobVars, storeVars, keyVars, weightVars, fanVars, dedupVars, baselineVars, grangerVars, severityVars, readyVars, sloVars, registryVars, correlateVars>>
nonFanVars == <<jobVars, storeVars, keyVars, weightVars, anVars, dedupVars, baselineVars, grangerVars, severityVars, readyVars, sloVars, registryVars, correlateVars>>
nonDedupVars == <<jobVars, storeVars, keyVars, weightVars, anVars, fanVars, baselineVars, grangerVars, severityVars, readyVars, sloVars, registryVars, correlateVars>>
nonBaselineVars == <<jobVars, storeVars, keyVars, weightVars, anVars, fanVars, dedupVars, grangerVars, severityVars, readyVars, sloVars, registryVars, correlateVars>>
nonGrangerVars == <<jobVars, storeVars, keyVars, weightVars, anVars, fanVars, dedupVars, baselineVars, severityVars, readyVars, sloVars, registryVars, correlateVars>>
nonSeverityVars == <<jobVars, storeVars, keyVars, weightVars, anVars, fanVars, dedupVars, baselineVars, grangerVars, readyVars, sloVars, registryVars, correlateVars>>
nonReadyVars == <<jobVars, storeVars, keyVars, weightVars, anVars, fanVars, dedupVars, baselineVars, grangerVars, severityVars, sloVars, registryVars, correlateVars>>
nonSloVars == <<jobVars, storeVars, keyVars, weightVars, anVars, fanVars, dedupVars, baselineVars, grangerVars, severityVars, readyVars, registryVars, correlateVars>>
nonRegistryVars == <<jobVars, storeVars, keyVars, weightVars, anVars, fanVars, dedupVars, baselineVars, grangerVars, severityVars, readyVars, sloVars, correlateVars>>
nonCorrelateVars == <<jobVars, storeVars, keyVars, weightVars, anVars, fanVars, dedupVars, baselineVars, grangerVars, severityVars, readyVars, sloVars, registryVars>>

vars == <<jobVars, storeVars, keyVars, weightVars, anVars, fanVars, dedupVars, baselineVars, grangerVars, severityVars, readyVars, sloVars, registryVars, correlateVars>>

Max(a, b) == IF a >= b THEN a ELSE b

(***************************************************************************)
(*                     RCA job runner (rca_job_service.py)                 *)
(***************************************************************************)
NumJobs == 3
MaxConcCfg == 2
Jobs == 1..NumJobs

QUEUED == "queued"
RUNNING == "running"
COMPLETED == "completed"
FAILED == "failed"
CANCELLED == "cancelled"
DELETED == "deleted"

\* RcaJobService.__init__: asyncio.Semaphore(max(1, int(settings.analyze_max_concurrency)))
SemaphoreSize(n) == Max(1, n)

\* asyncio.Semaphore.acquire proceeds only while a permit is free
SemLockedAlwaysFree(free) == FALSE
SemLocked(free) == free <= 0

\* the guard shared by _mark_running, _mark_completed and _mark_failed
MarkGuardSkips(st) == st \in {"none", DELETED, CANCELLED}

\* _mark_running
mark_running(st) == IF MarkGuardSkips(st) THEN st ELSE RUNNING
\* _mark_completed: the new row status
mark_completed(st) == IF MarkGuardSkips(st) THEN st ELSE COMPLETED
\* _mark_completed: the report row (added, or its payload replaced)
mark_completed_report(st, rp) == IF MarkGuardSkips(st) THEN rp ELSE "stored"
\* _mark_failed
mark_failed(st) == IF MarkGuardSkips(st) THEN st ELSE FAILED
\* _mark_cancelled: only a missing row is skipped
mark_cancelled(st) == IF st = "none" THEN st ELSE CANCELLED

\* get_report / get_job_result: the stored result can be read back
get_report_ok(st, rp) == st \notin {"none", DELETED} /\ rp = "stored"
get_job_result_ok(st, rp) == st = COMPLETED /\ rp = "stored"
Retrievable(j) ==
    \/ get_report_ok(jobStatus[j], reportPayload[j])
    \/ get_job_result_ok(jobStatus[j], reportPayload[j])

HoldsSem(pc) == pc \in {"get_row_call", "get_row_ret", "mark_running_call", "mark_running_ret",
                        "run", "mark_completed_call", "mark_completed_ret",
                        "mark_failed_call", "mark_failed_ret",
                        "mark_cancelled_call", "mark_cancelled_ret"}
Pending(pc) == pc \notin {"none", "done"}

\* Where _run_job is after a CancelledError is thrown into it at pc: inside the inner
\* try (the analysis, _mark_completed) the handler calls _mark_cancelled; anywhere
\* else the error leaves through the semaphore's exit and the finally block.
CancelNext(pc) ==
    IF pc \in {"run", "mark_completed_call", "mark_completed_ret"} THEN "mark_cancelled_call"
    ELSE IF Pending(pc) THEN "done"
    ELSE pc

JobsIdle ==
    /\ cfgMaxConc = 1
    /\ jobStatus = [j \in Jobs |-> "none"]
    /\ reportPayload = [j \in Jobs |-> "absent"]
    /\ taskPc = [j \in Jobs |-> "none"]
    /\ semFree = 1
    /\ tasks = {}
    /\ delPc = [j \in Jobs |-> "idle"]
    /\ stopping = FALSE
    /\ wasCancelled = [j \in Jobs |-> FALSE]

JobsStart ==
    /\ cfgMaxConc \in 0..MaxConcCfg
    /\ jobStatus = [j \in Jobs |-> "none"]
    /\ reportPayload = [j \in Jobs |-> "absent"]
    /\ taskPc = [j \in Jobs |-> "none"]
    /\ semFree = SemaphoreSize(cfgMaxConc)
    /\ tasks = {}
    /\ delPc = [j \in Jobs |-> "idle"]
    /\ stopping = FALSE
    /\ wasCancelled = [j \in Jobs |-> FALSE]

\* create_job: insert the queued row, create the task, register it in _tasks
CreateJob(j) ==
    /\ ~stopping
    /\ jobStatus[j] = "none"
    /\ jobStatus' = [jobStatus EXCEPT ![j] = QUEUED]
    /\ taskPc' = [taskPc EXCEPT ![j] = "acquire"]
    /\ tasks' = tasks \cup {j}
    /\ UNCHANGED <<cfgMaxConc, reportPayload, semFree, delPc, stopping, wasCancelled>>
    /\ UNCHANGED nonJobVars

\* _run_job: async with self._semaphore, then to_thread(_get_job_row)
AcquireSlot(j) ==
    /\ taskPc[j] = "acquire"
    /\ ~SemLocked(semFree)
    /\ semFree' = semFree - 1
    /\ taskPc' = [taskPc EXCEPT ![j] = "get_row_call"]
    /\ UNCHANGED <<cfgMaxConc, jobStatus, reportPayload, tasks, delPc, stopping, wasCancelled>>
    /\ UNCHANGED nonJobVars

\* the worker thread of to_thread(...) runs the function of the pending call
ThreadGetRow(j) ==
    /\ taskPc[j] = "get_row_call"
    /\ taskPc' = [taskPc EXCEPT ![j] = "get_row_ret"]
    /\ UNCHANGED <<cfgMaxConc, jobStatus, reportPayload, semFree, tasks, delPc, stopping,
                   wasCancelled>>
    /\ UNCHANGED nonJobVars

\* _run_job resumes with the row and calls to_thread(_mark_running)
ResumeGetRow(j) ==
    /\ taskPc[j] = "get_row_ret"
    /\ taskPc' = [taskPc EXCEPT ![j] = "mark_running_call"]
    /\ UNCHANGED <<cfgMaxConc, jobStatus, reportPayload, semFree, tasks, delPc, stopping,
                   wasCancelled>>
    /\ UNCHANGED nonJobVars

ThreadMarkRunning(j) ==
    /\ taskPc[j] = "mark_running_call"
    /\ jobStatus' = [jobStatus EXCEPT ![j] = mark_running(@)]
    /\ taskPc' = [taskPc EXCEPT ![j] = "mark_running_ret"]
    /\ UNCHANGED <<cfgMaxConc, reportPayload, semFree, tasks, delPc, stopping, wasCancelled>>
    /\ UNCHANGED nonJobVars

\* _run_job enters the inner try and awaits wait_for(run(...), timeout)
ResumeMarkRunning(j) ==
    /\ taskPc[j] = "mark_running_ret"
    /\ taskPc' = [taskPc EXCEPT ![j] = "run"]
    /\ UNCHANGED <<cfgMaxConc, jobStatus, reportPayload, semFree, tasks, delPc, stopping,
                   wasCancelled>>
    /\ UNCHANGED nonJobVars

\* the analysis returns a report: to_thread(_mark_completed)
RunCompletes(j) ==
    /\ taskPc[j] = "run"
    /\ taskPc' = [taskPc EXCEPT ![j] = "mark_completed_call"]
    /\ UNCHANGED <<cfgMaxConc, jobStatus, reportPayload, semFree, tasks, delPc, stopping,
                   wasCancelled>>
    /\ UNCHANGED nonJobVars

\* the analysis raises or exceeds analyze_timeout_seconds: to_thread(_mark_failed)
RunFails(j) ==
    /\ taskPc[j] = "run"
    /\ taskPc' = [taskPc EXCEPT ![j] = "mark_failed_call"]
    /\ UNCHANGED <<cfgMaxConc, jobStatus, reportPayload, semFree, tasks, delPc, stopping,
                   wasCancelled>>
    /\ UNCHANGED nonJobVars

ThreadMarkCompleted(j) ==
    /\ taskPc[j] = "mark_completed_call"
    /\ jobStatus' = [jobStatus EXCEPT ![j] = mark_completed(@)]
    /\ reportPayload' = [reportPayload EXCEPT ![j] = mark_completed_report(jobStatus[j], @)]
    /\ taskPc' = [taskPc EXCEPT ![j] = "mark_completed_ret"]
    /\ UNCHANGED <<cfgMaxConc, semFree, tasks, delPc, stopping, wasCancelled>>
    /\ UNCHANGED nonJobVars

ThreadMarkFailed(j) ==
    /\ taskPc[j] = "mark_failed_call"
    /\ jobStatus' = [jobStatus EXCEPT ![j] = mark_failed(@)]
    /\ taskPc' = [taskPc EXCEPT ![j] = "mark_failed_ret"]
    /\ UNCHANGED <<cfgMaxConc, reportPayload, semFree, tasks, delPc, stopping, wasCancelled>>
    /\ UNCHANGED nonJobVars

ThreadMarkCancelled(j) ==
    /\ taskPc[j] = "mark_cancelled_call"
    /\ jobStatus' = [jobStatus EXCEPT ![j] = mark_cancelled(@)]
    /\ taskPc' = [taskPc EXCEPT ![j] = "mark_cancelled_ret"]
    /\ UNCHANGED <<cfgMaxConc, reportPayload, semFree, tasks, delPc, stopping, wasCancelled>>
    /\ UNCHANGED nonJobVars

\* _run_job resumes after its last to_thread call, leaves the semaphore and runs the
\* finally block (self._tasks.pop)
ResumeFinish(j) ==
    /\ taskPc[j] \in {"mark_completed_ret", "mark_failed_ret", "mark_cancelled_ret"}
    /\ taskPc' = [taskPc EXCEPT ![j] = "done"]
    /\ semFree' = semFree + 1
    /\ tasks' = tasks \ {j}
    /\ UNCHANGED <<cfgMaxConc, jobStatus, reportPayload, delPc, stopping, wasCancelled>>
    /\ UNCHANGED nonJobVars

\* delete_report, first half: to_thread(_delete) needs the report row to exist
DeleteDb(j) ==
    /\ ~stopping
    /\ delPc[j] = "idle"
    /\ reportPayload[j] # "absent"
    /\ jobStatus[j] # "none"
    /\ jobStatus' = [jobStatus EXCEPT ![j] = DELETED]
    /\ reportPayload' = [reportPayload EXCEPT ![j] = "null"]
    /\ delPc' = [delPc EXCEPT ![j] = "cancel_pending"]
    /\ UNCHANGED <<cfgMaxConc, taskPc, semFree, tasks, stopping, wasCancelled>>
    /\ UNCHANGED nonJobVars

\* delete_report, second half: cancel the job's task if it is registered and not done
DeleteCancel(j) ==
    /\ delPc[j] = "cancel_pending"
    /\ delPc' = [delPc EXCEPT ![j] = "idle"]
    /\ IF j \in tasks /\ Pending(taskPc[j])
       THEN /\ taskPc' = [taskPc EXCEPT ![j] = CancelNext(@)]
            /\ semFree' = IF HoldsSem(taskPc[j]) /\ ~HoldsSem(CancelNext(taskPc[j]))
                          THEN semFree + 1 ELSE semFree
            /\ tasks' = IF CancelNext(taskPc[j]) = "done" THEN tasks \ {j} ELSE tasks
            /\ wasCancelled' = [wasCancelled EXCEPT ![j] = TRUE]
       ELSE UNCHANGED <<taskPc, semFree, tasks, wasCancelled>>
    /\ UNCHANGED <<cfgMaxConc, jobStatus, reportPayload, stopping>>
    /\ UNCHANGED nonJobVars

\* loop teardown (lifespan exit): every pending task is cancelled at its current await
Shutdown ==
    /\ ~stopping
    /\ \E j \in Jobs : Pending(taskPc[j])
    /\ stopping' = TRUE
    /\ taskPc' = [j \in Jobs |-> CancelNext(taskPc[j])]
    /\ semFree' = semFree + Cardinality({j \in Jobs :
                        HoldsSem(taskPc[j]) /\ ~HoldsSem(CancelNext(taskPc[j]))})
    /\ tasks' = tasks \ {j \in Jobs : Pending(taskPc[j]) /\ CancelNext(taskPc[j]) = "done"}
    /\ wasCancelled' = [j \in Jobs |-> wasCancelled[j] \/ Pending(taskPc[j])]
    /\ UNCHANGED <<cfgMaxConc, jobStatus, reportPayload, delPc>>
    /\ UNCHANGED nonJobVars

(***************************************************************************)
(*                  Two-tier key-value store (store/client.py)             *)
(***************************************************************************)
MaxAppends == 2
MaxTime == 2
Callers == {"c1", "c2"}
SetVals == {1, 2}
KvKeys == {"k1"}
ListKeys == {"ev"}
AllKeys == KvKeys \cup ListKeys

\* _MAX_FALLBACK_SIZE = int(settings.store_fallback_max_items), scaled down from 10000
MAX_FALLBACK_SIZE == 1
\* _REDIS_RETRY_COOLDOWN_SECONDS = settings.store_redis_retry_cooldown_seconds, in ticks
REDIS_RETRY_COOLDOWN == 1
\* store/events.py _MAX_EVENTS, scaled down from 500
MAX_EVENTS == 1

\* get_redis: time.monotonic() < _retry_after_monotonic
InCooldownNever(t, retry_after) == FALSE
InCooldown(t, retry_after) == t < retry_after

\* async with _init_lock: the lock can be taken
InitLockFree(holder) == holder = "free"

\* history of get_redis's connection attempts: the time the latest attempt started, the
\* time of the latest failure that preceded that start, and the time of the latest failure
\* (-1 = none); recorded only when tracking is on
NoAttempts(on) == [on |-> on, startAt |-> -1, prevFail |-> -1, failAt |-> -1]
attempt_started(h, t) == IF h.on THEN [h EXCEPT !.startAt = t, !.prevFail = h.failAt] ELSE h
attempt_failed(h, t) == IF h.on THEN [h EXCEPT !.failAt = t] ELSE h

\* history of a plain key: deleted = a delete of the key has returned and no set of it
\* since; before = the values set so far
NoDeletes(on) == [on |-> on, deleted |-> [k \in KvKeys |-> FALSE], before |-> [k \in KvKeys |-> {}]]
deletes_after(h, op) ==
    IF ~h.on \/ op.key \notin KvKeys THEN h
    ELSE CASE op.kind = "set" -> [h EXCEPT !.deleted[op.key] = FALSE,
                                            !.before[op.key] = @ \cup {op.val}]
           [] op.kind = "delete" -> [h EXCEPT !.deleted[op.key] = TRUE]
           [] OTHER -> h

NoDone == [kind |-> "none", key |-> "none", val |-> 0, tier |-> "none", result |-> 0,
           raised |-> FALSE]

\* lst[-n:]
LastN(lst, n) == IF Len(lst) <= n THEN lst ELSE SubSeq(lst, Len(lst) - n + 1, Len(lst))

\* fnmatch.fnmatch(k, pattern), for the pattern "*" and a literal key
fnmatch(k, pattern) == pattern = "*" \/ pattern = k

\* len(_fallback)
FallbackLen(fb) == Cardinality({k \in AllKeys : fb[k] # 0})

\* redis_set, fallback branch: if len(_fallback) < _MAX_FALLBACK_SIZE: _fallback[key] = value
fallback_set(fb, k, v) ==
    IF FallbackLen(fb) < MAX_FALLBACK_SIZE THEN [fb EXCEPT ![k] = v] ELSE fb

\* redis_rpush, fallback branch: setdefault, append, del lst[:-max_len]
fallback_rpush_notrim(fl, k, v, max_len) == [fl EXCEPT ![k] = Append(@, v)]
fallback_rpush(fl, k, v, max_len) ==
    LET lst == Append(fl[k], v)
    IN  [fl EXCEPT ![k] = IF max_len # 0 /\ Len(lst) > max_len THEN LastN(lst, max_len) ELSE lst]

\* redis_rpush, primary branch: pipeline of RPUSH, LTRIM key -max_len -1, EXPIRE
primary_rpush(pl, k, v, max_len) ==
    LET lst == Append(pl[k], v)
    IN  [pl EXCEPT ![k] = IF max_len # 0 THEN LastN(lst, max_len) ELSE lst]

\* redis_scan, fallback branch: [k for k in _fallback if fnmatch(k, pattern)]
fallback_scan(fb, pattern) == {k \in AllKeys : fb[k] # 0 /\ fnmatch(k, pattern)}
\* redis_scan, primary branch: scan_iter yields every matching key, plain or list
primary_scan(pk, pl, pattern) ==
    {k \in AllKeys : (pk[k] # 0 \/ pl[k] # <<>>) /\ fnmatch(k, pattern)}

\* the except Exception clause of each operation catches the primary store's errors
HandlerCatchesNothing(kind) == FALSE
HandlerCatches(kind) == TRUE

\* the six operations, as the callers issue them
KvOps ==
    [kind : {"get", "delete"}, key : KvKeys, val : {0}, max_len : {0}]
    \cup [kind : {"set"}, key : KvKeys, val : SetVals, max_len : {0}]
    \cup [kind : {"scan"}, key : {"*"}, val : {0}, max_len : {0}]
\* store/events.py: append is rpush with max_len=_MAX_EVENTS, load is lrange
EventOps ==
    [kind : {"rpush"}, key : ListKeys, val : {0}, max_len : {MAX_EVENTS}]
    \cup [kind : {"lrange"}, key : ListKeys, val : {0}, max_len : {0}]
\* store/events.py: clear is delete
StoreOps == KvOps \cup EventOps \cup [kind : {"delete"}, key : ListKeys, val : {0}, max_len : {0}]

\* an appended event is identified by its position in the order of all appends
Stamp(op) == IF op.kind = "rpush" THEN [op EXCEPT !.val = Len(appendLog) + 1] ELSE op
CanApply(op) == op.kind = "rpush" => Len(appendLog) < MaxAppends

FallbackResult(op) ==
    CASE op.kind = "get" -> fallback[op.key]
      [] op.kind = "lrange" -> fallbackLists[op.key]
      [] op.kind = "scan" -> fallback_scan(fallback, op.key)
      [] OTHER -> 0

PrimaryResult(op) ==
    CASE op.kind = "get" -> primaryKv[op.key]
      [] op.kind = "lrange" -> primaryLists[op.key]
      [] op.kind = "scan" -> primary_scan(primaryKv, primaryLists, op.key)
      [] OTHER -> 0

FallbackAfter(op) ==
    CASE op.kind = "set" -> fallback_set(fallback, op.key, op.val)
      [] op.kind = "delete" -> [fallback EXCEPT ![op.key] = 0]
      [] OTHER -> fallback

FallbackListsAfter(op) ==
    CASE op.kind = "rpush" -> fallback_rpush(fallbackLists, op.key, op.val, op.max_len)
      [] op.kind = "delete" -> [fallbackLists EXCEPT ![op.key] = <<>>]
      [] OTHER -> fallbackLists

PrimaryKvAfter(op) ==
    CASE op.kind = "set" -> [primaryKv EXCEPT ![op.key] = op.val]
      [] op.kind = "delete" -> [primaryKv EXCEPT ![op.key] = 0]
      [] OTHER -> primaryKv

PrimaryListsAfter(op) ==
    CASE op.kind = "rpush" -> primary_rpush(primaryLists, op.key, op.val, op.max_len)
      [] op.kind = "delete" -> [primaryLists EXCEPT ![op.key] = <<>>]
      [] OTHER -> primaryLists

\* the operation of caller c returns; tier names the store whose answer it returns
Returns(c, op, tier, result) ==
    /\ lastDone' = [kind |-> op.kind, key |-> op.key, val |-> op.val, tier |-> tier,
                    result |-> result, raised |-> FALSE]
    /\ callPc' = [callPc EXCEPT ![c] = "idle"]
    /\ delHist' = deletes_after(delHist, op)

\* the client is None branch and the except branch of the six operations
ServeFallback(c, op, appendedTo) ==
    /\ CanApply(op)
    /\ fallback' = FallbackAfter(Stamp(op))
    /\ fallbackLists' = FallbackListsAfter(Stamp(op))
    /\ appendLog' = IF op.kind = "rpush" THEN Append(appendLog, appendedTo) ELSE appendLog
    /\ Returns(c, Stamp(op), "fallback", FallbackResult(op))

StoreStartWith(history, deletes) ==
    /\ redisClient = FALSE
    /\ usingFallback = FALSE
    /\ retryAfter = 0
    /\ now = 0
    /\ initLock = "free"
    /\ primaryUp \in BOOLEAN
    /\ primaryKv = [k \in AllKeys |-> 0]
    /\ primaryLists = [k \in AllKeys |-> <<>>]
    /\ fallback = [k \in AllKeys |-> 0]
    /\ fallbackLists = [k \in AllKeys |-> <<>>]
    /\ callPc = [c \in Callers |-> "idle"]
    /\ lastDone = NoDone
    /\ appendLog = <<>>
    /\ connHist = history
    /\ delHist = deletes

StoreStart == StoreStartWith(NoAttempts(FALSE), NoDeletes(FALSE))
\* the same start, with the history of connection attempts recorded
ConnectStart == StoreStartWith(NoAttempts(TRUE), NoDeletes(FALSE))
\* the same start, with the history of sets and deletes recorded
DeleteStart == StoreStartWith(NoAttempts(FALSE), NoDeletes(TRUE))

StoreIdle == StoreStart /\ primaryUp

\* get_redis, first check: the client exists; the caller goes on to the primary store
StartOpConnected(c) ==
    /\ callPc[c] = "idle"
    /\ redisClient
    /\ callPc' = [callPc EXCEPT ![c] = "primary_op"]
    /\ UNCHANGED <<redisClient, usingFallback, retryAfter, now, initLock, primaryUp, primaryKv,
                   primaryLists, fallback, fallbackLists, lastDone, appendLog>>
    /\ UNCHANGED connHist
    /\ UNCHANGED delHist
    /\ UNCHANGED nonStoreVars

\* get_redis, first check: inside the cooldown window; get_redis returns None
StartOpCooldown(c, op) ==
    /\ callPc[c] = "idle"
    /\ ~redisClient
    /\ InCooldown(now, retryAfter)
    /\ usingFallback' = TRUE
    /\ ServeFallback(c, op, "fallback")
    /\ UNCHANGED <<redisClient, retryAfter, now, initLock, primaryUp, primaryKv, primaryLists>>
    /\ UNCHANGED connHist
    /\ UNCHANGED nonStoreVars

\* get_redis: _init_lock is free; the caller takes it and awaits client.ping()
StartOpConnect(c) ==
    /\ callPc[c] = "idle"
    /\ ~redisClient
    /\ ~InCooldown(now, retryAfter)
    /\ InitLockFree(initLock)
    /\ initLock' = c
    /\ callPc' = [callPc EXCEPT ![c] = "ping"]
    /\ UNCHANGED <<redisClient, usingFallback, retryAfter, now, primaryUp, primaryKv,
                   primaryLists, fallback, fallbackLists, lastDone, appendLog>>
    /\ connHist' = attempt_started(connHist, now)
    /\ UNCHANGED delHist
    /\ UNCHANGED nonStoreVars

\* get_redis: _init_lock is held by another caller; wait for it
StartOpWaitLock(c) ==
    /\ callPc[c] = "idle"
    /\ ~redisClient
    /\ ~InCooldown(now, retryAfter)
    /\ ~InitLockFree(initLock)
    /\ callPc' = [callPc EXCEPT ![c] = "lock_wait"]
    /\ UNCHANGED <<redisClient, usingFallback, retryAfter, now, initLock, primaryUp, primaryKv,
                   primaryLists, fallback, fallbackLists, lastDone, appendLog>>
    /\ UNCHANGED connHist
    /\ UNCHANGED delHist
    /\ UNCHANGED nonStoreVars

\* get_redis, second check under the lock: another caller connected meanwhile
AfterLockConnected(c) ==
    /\ callPc[c] = "lock_wait"
    /\ InitLockFree(initLock)
    /\ redisClient
    /\ callPc' = [callPc EXCEPT ![c] = "primary_op"]
    /\ UNCHANGED <<redisClient, usingFallback, retryAfter, now, initLock, primaryUp, primaryKv,
                   primaryLists, fallback, fallbackLists, lastDone, appendLog>>
    /\ UNCHANGED connHist
    /\ UNCHANGED delHist
    /\ UNCHANGED nonStoreVars

\* get_redis, second check under the lock: another caller's attempt failed meanwhile
AfterLockCooldown(c, op) ==
    /\ callPc[c] = "lock_wait"
    /\ InitLockFree(initLock)
    /\ ~redisClient
    /\ InCooldown(now, retryAfter)
    /\ usingFallback' = TRUE
    /\ ServeFallback(c, op, "fallback")
    /\ UNCHANGED <<redisClient, retryAfter, now, initLock, primaryUp, primaryKv, primaryLists>>
    /\ UNCHANGED connHist
    /\ UNCHANGED nonStoreVars

\* get_redis, second check under the lock: still no client and no cooldown; ping
AfterLockConnect(c) ==
    /\ callPc[c] = "lock_wait"
    /\ InitLockFree(initLock)
    /\ ~redisClient
    /\ ~InCooldown(now, retryAfter)
    /\ initLock' = c
    /\ callPc' = [callPc EXCEPT ![c] = "ping"]
    /\ UNCHANGED <<redisClient, usingFallback, retryAfter, now, primaryUp, primaryKv,
                   primaryLists, fallback, fallbackLists, lastDone, appendLog>>
    /\ connHist' = attempt_started(connHist, now)
    /\ UNCHANGED delHist
    /\ UNCHANGED nonStoreVars

\* get_redis: ping answered within 0.5 s
PingOk(c) ==
    /\ callPc[c] = "ping"
    /\ primaryUp
    /\ redisClient' = TRUE
    /\ retryAfter' = 0
    /\ usingFallback' = FALSE
    /\ initLock' = "free"
    /\ callPc' = [callPc EXCEPT ![c] = "primary_op"]
    /\ UNCHANGED <<now, primaryUp, primaryKv, primaryLists, fallback, fallbackLists, lastDone,
                   appendLog>>
    /\ UNCHANGED connHist
    /\ UNCHANGED delHist
    /\ UNCHANGED nonStoreVars

\* get_redis: ping failed or timed out; start the cooldown and return None
PingFail(c, op) ==
    /\ callPc[c] = "ping"
    /\ ~primaryUp
    /\ retryAfter' = now + Max(0, REDIS_RETRY_COOLDOWN)
    /\ usingFallback' = TRUE
    /\ initLock' = "free"
    /\ ServeFallback(c, op, "fallback")
    /\ UNCHANGED <<redisClient, now, primaryUp, primaryKv, primaryLists>>
    /\ connHist' = attempt_failed(connHist, now)
    /\ UNCHANGED nonStoreVars

\* the primary store executes the operation and answers in time
PrimaryOpOk(c, op) ==
    /\ callPc[c] = "primary_op"
    /\ primaryUp
    /\ CanApply(op)
    /\ primaryKv' = PrimaryKvAfter(Stamp(op))
    /\ primaryLists' = PrimaryListsAfter(Stamp(op))
    /\ appendLog' = IF op.kind = "rpush" THEN Append(appendLog, "primary") ELSE appendLog
    /\ Returns(c, Stamp(op), "primary", PrimaryResult(op))
    /\ UNCHANGED <<redisClient, usingFallback, retryAfter, now, initLock, primaryUp, fallback,
                   fallbackLists>>
    /\ UNCHANGED connHist
    /\ UNCHANGED nonStoreVars

\* the primary store is unreachable: the awaited call raises inside the try block
PrimaryOpFail(c, op) ==
    /\ callPc[c] = "primary_op"
    /\ ~primaryUp
    /\ IF HandlerCatches(op.kind)
       THEN ServeFallback(c, op, "fallback")
       ELSE /\ lastDone' = [NoDone EXCEPT !.kind = op.kind, !.key = op.key, !.raised = TRUE]
            /\ callPc' = [callPc EXCEPT ![c] = "idle"]
            /\ UNCHANGED <<fallback, fallbackLists, appendLog, delHist>>
    /\ UNCHANGED <<redisClient, usingFallback, retryAfter, now, initLock, primaryUp, primaryKv,
                   primaryLists>>
    /\ UNCHANGED connHist
    /\ UNCHANGED nonStoreVars

\* the primary store executes the operation, but the answer misses the 0.5 s timeout:
\* wait_for raises TimeoutError and the except branch runs as well
PrimaryOpTimeout(c, op) ==
    /\ callPc[c] = "primary_op"
    /\ primaryUp
    /\ HandlerCatches(op.kind)
    /\ primaryKv' = PrimaryKvAfter(Stamp(op))
    /\ primaryLists' = PrimaryListsAfter(Stamp(op))
    /\ ServeFallback(c, op, "both")
    /\ UNCHANGED <<redisClient, usingFallback, retryAfter, now, initLock, primaryUp>>
    /\ UNCHANGED connHist
    /\ UNCHANGED nonStoreVars

\* a key's TTL runs out in the primary store (setex / expire)
PrimaryExpire(k) ==
    /\ primaryKv[k] # 0 \/ primaryLists[k] # <<>>
    /\ primaryKv' = [primaryKv EXCEPT ![k] = 0]
    /\ primaryLists' = [primaryLists EXCEPT ![k] = <<>>]
    /\ UNCHANGED <<redisClient, usingFallback, retryAfter, now, initLock, primaryUp, fallback,
                   fallbackLists, callPc, lastDone, appendLog>>
    /\ UNCHANGED connHist
    /\ UNCHANGED delHist
    /\ UNCHANGED nonStoreVars

\* time.monotonic() advances; it is only read while a cooldown is pending
Tick ==
    /\ now < MaxTime
    /\ now < retryAfter
    /\ now' = now + 1
    /\ UNCHANGED <<redisClient, usingFallback, retryAfter, initLock, primaryUp, primaryKv,
                   primaryLists, fallback, fallbackLists, callPc, lastDone, appendLog>>
    /\ UNCHANGED connHist
    /\ UNCHANGED delHist
    /\ UNCHANGED nonStoreVars

\* the primary store goes down or comes back
PrimaryToggle ==
    /\ primaryUp' = ~primaryUp
    /\ UNCHANGED <<redisClient, usingFallback, retryAfter, now, initLock, primaryKv,
                   primaryLists, fallback, fallbackLists, callPc, lastDone, appendLog>>
    /\ UNCHANGED connHist
    /\ UNCHANGED delHist
    /\ UNCHANGED nonStoreVars

(***************************************************************************)
(*                        Store keys (store/keys.py)                       *)
(***************************************************************************)
MaxTenantLen == 3
Analyses == {"A", "B"}
\* a tenant_id is any non-empty string; ":" is the separator the keys use
TenantChars == {"a", ":"}
TenantIds == UNION {[1..n -> TenantChars] : n \in 1..MaxTenantLen}
MetricNames == {"cpu", "mem"}
Services == {"api"}

\* _slug: the first 32 hex digits of sha256(value), one token without ":"
slug(value) == "sha256_" \o value

\* a key is the sequence of its tokens; the tenant id contributes its characters
baseline(tenant_id, metric_name) ==
    <<"bc", ":">> \o tenant_id \o <<":", "baseline", ":", slug(metric_name)>>
weights(tenant_id) == <<"bc", ":">> \o tenant_id \o <<":", "weights">>
granger(tenant_id, service) ==
    <<"bc", ":">> \o tenant_id \o <<":", "granger", ":", slug(service)>>
events(tenant_id) == <<"bc", ":">> \o tenant_id \o <<":", "events">>

KeysIdle ==
    /\ tenantOf = [a \in Analyses |-> <<"a">>]
    /\ written = {}

\* two requests with different tenant ids
KeysStart ==
    /\ tenantOf \in [Analyses -> TenantIds]
    /\ tenantOf["A"] # tenantOf["B"]
    /\ written = {}

\* baseline_store.compute_and_persist in _process_one_metric_series
SaveBaseline(a, m) ==
    /\ written' = written \cup {[by |-> a, key |-> baseline(tenantOf[a], m)]}
    /\ UNCHANGED tenantOf
    /\ UNCHANGED nonKeyVars

\* granger_store.save_and_merge in run
SaveGranger(a, svc) ==
    /\ written' = written \cup {[by |-> a, key |-> granger(tenantOf[a], svc)]}
    /\ UNCHANGED tenantOf
    /\ UNCHANGED nonKeyVars

\* weight_store.save in TenantRegistry.update_weight
SaveWeights(a) ==
    /\ written' = written \cup {[by |-> a, key |-> weights(tenantOf[a])]}
    /\ UNCHANGED tenantOf
    /\ UNCHANGED nonKeyVars

\* event_store.append in TenantRegistry.register_event
AppendEvent(a) ==
    /\ written' = written \cup {[by |-> a, key |-> events(tenantOf[a])]}
    /\ UNCHANGED tenantOf
    /\ UNCHANGED nonKeyVars

(***************************************************************************)
(*                  Adaptive signal weights (engine/registry.py)           *)
(***************************************************************************)
MaxUpdates == 2
Signals == {"metrics", "logs", "traces"}
\* config.DEFAULT_WEIGHTS in hundredths: 0.30, 0.35, 0.35
DEFAULT_WEIGHTS == [metrics |-> 30, logs |-> 35, traces |-> 35]
DEFAULT_WEIGHTS_DEN == 100
\* config.REGISTRY_ALPHA = 0.2 = ALPHA_NUM / ALPHA_DEN
ALPHA_NUM == 1
ALPHA_DEN == 5

\* a weight map is num[s] / den for each signal s, in exact arithmetic
SumOf(num) == num["metrics"] + num["logs"] + num["traces"]

RECURSIVE GCD(_, _)
GCD(a, b) == IF b = 0 THEN a ELSE GCD(b, a % b)

\* the same weights over the smallest common denominator
Lowest(w) ==
    LET g == GCD(GCD(GCD(w.num["metrics"], w.num["logs"]), w.num["traces"]), w.den)
    IN  [num |-> [s \in DOMAIN w.num |-> w.num[s] \div g], den |-> w.den \div g]

\* total = sum(weights.values()) or 1.0; weights[k] = weights[k] / total
normalize(w) ==
    IF SumOf(w.num) = 0 THEN Lowest(w) ELSE Lowest([num |-> w.num, den |-> SumOf(w.num)])

default_weights == normalize([num |-> DEFAULT_WEIGHTS, den |-> DEFAULT_WEIGHTS_DEN])

\* the values a stored weight map can hold for a signal, as vals[s] / den; a negative
\* value stands for every value _coerce_weights skips (negative, NaN, not a number, no key)
RawVals == {-1, 0, 1, 3}
NoStored == [present |-> FALSE, isdict |-> FALSE, vals |-> [s \in Signals |-> -1], den |-> 1,
             count |-> 0]
StoredChoices ==
    {NoStored}
    \cup {[NoStored EXCEPT !.present = TRUE]}
    \cup {[NoStored EXCEPT !.present = TRUE, !.isdict = TRUE, !.vals = v] :
             v \in [Signals -> RawVals]}

\* _coerce_weights: start from the defaults, overwrite with every finite value >= 0
coerce_weights(raw) ==
    IF ~raw.isdict THEN default_weights
    ELSE normalize([num |-> [s \in Signals |->
                                IF raw.vals[s] < 0 THEN default_weights.num[s] * raw.den
                                ELSE raw.vals[s] * default_weights.den],
                    den |-> default_weights.den * raw.den])

NoState == [loaded |-> FALSE, num |-> default_weights.num, den |-> default_weights.den,
            count |-> 0]

\* TenantRegistry.get_state: the cached state, or one built from weight_store.load
state_of(raw) ==
    IF raw.present /\ raw.isdict
    THEN [loaded |-> TRUE, num |-> coerce_weights(raw).num,
          den |-> coerce_weights(raw).den, count |-> Max(0, raw.count)]
    ELSE [loaded |-> TRUE, num |-> default_weights.num, den |-> default_weights.den,
          count |-> 0]
get_state == IF wstate.loaded THEN wstate ELSE state_of(stored)

\* TenantState.update_weight: (1 - alpha) * current + alpha * reward, then _normalize
update_weight(st, signal, was_correct) ==
    LET reward == IF was_correct THEN 1 ELSE 0
        blended == [num |-> [s \in Signals |->
                                IF s = signal
                                THEN (ALPHA_DEN - ALPHA_NUM) * st.num[s] + ALPHA_NUM * reward * st.den
                                ELSE ALPHA_DEN * st.num[s]],
                    den |-> ALPHA_DEN * st.den]
    IN  [loaded |-> TRUE, num |-> normalize(blended).num, den |-> normalize(blended).den,
         count |-> st.count + 1]

WeightsIdle ==
    /\ stored = NoStored
    /\ wstate = NoState

WeightsStart ==
    /\ stored \in StoredChoices
    /\ wstate = NoState

\* TenantRegistry.get_state
GetState ==
    /\ ~wstate.loaded
    /\ wstate' = get_state
    /\ UNCHANGED stored
    /\ UNCHANGED nonWeightVars

\* TenantRegistry.update_weight: get_state, update_weight, weight_store.save
UpdateWeight(signal, was_correct) ==
    /\ get_state.count < MaxUpdates
    /\ wstate' = update_weight(get_state, signal, was_correct)
    /\ stored' = [present |-> TRUE, isdict |-> TRUE, vals |-> wstate'.num, den |-> wstate'.den,
                  count |-> wstate'.count]
    /\ UNCHANGED nonWeightVars

\* TenantRegistry.reset_weights: reset, weight_store.delete, drop the cached state
ResetWeights ==
    /\ wstate.loaded \/ stored.present
    /\ wstate' = NoState
    /\ stored' = NoStored
    /\ UNCHANGED nonWeightVars

\* TenantRegistry.evict
Evict ==
    /\ wstate.loaded
    /\ wstate' = NoState
    /\ UNCHANGED stored
    /\ UNCHANGED nonWeightVars

(***************************************************************************)
(*        Analyzer orchestrator (engine/analyzer.py, engine/fetcher.py)    *)
(***************************************************************************)
MaxItems == 3
MaxCap == 2
MetricQueries == {"q1", "q2"}
\* settings.quality_min_corroboration_signals
MIN_CORROBORATION_SIGNALS == 2
\* settings.quality_max_root_causes_without_multisignal
MAX_ROOT_CAUSES_WITHOUT_MULTISIGNAL == 1
\* settings.rca_min_confidence_display, in hundredths
RCA_MIN_CONFIDENCE_DISPLAY == 12
\* settings.ranking_label_threshold, in hundredths
RANKING_LABEL_THRESHOLD == 50
\* settings.ranking_confidence_blend and settings.ranking_ml_blend, in tenths
RANKING_CONFIDENCE_BLEND == 6
RANKING_ML_BLEND == 4

\* sorted(items, key=..., reverse=True): stable, k[i] is the key of items[i]
SortedDesc(items, k) ==
    LET n == Len(items)
        pos(i) == 1 + Cardinality({j \in 1..n : k[j] > k[i] \/ (k[j] = k[i] /\ j < i)})
    IN  [p \in 1..n |-> items[CHOOSE i \in 1..n : pos(i) = p]]

\* sorted(items, key=lambda a: (a.timestamp, a.metric_name))
SortedByTime(items) ==
    SortedDesc(items, [i \in 1..Len(items) |-> 0 - (items[i].ts * 10 + items[i].metric)])

\* _cap_list; an item's key stands for the leading sort keys, its ts breaks ties
cap_list_unlimited(items, limit) == items
cap_list(items, limit) ==
    LET capped_limit == Max(1, limit)
    IN  IF Len(items) <= capped_limit THEN items
        ELSE SubSeq(SortedDesc(items, [i \in 1..Len(items) |-> items[i].key * 100 + items[i].ts]),
                    1, capped_limit)

\* _dedupe_metric_anomalies, _dedupe_change_points: one item per (metric, timestamp),
\* the one with the greatest key, the earliest on a tie
dedupe(items) ==
    LET n == Len(items)
        Same(i, j) == items[i].metric = items[j].metric /\ items[i].ts = items[j].ts
        Wins(i) == \A j \in 1..n :
                       (j # i /\ Same(i, j)) =>
                           \/ items[i].key > items[j].key
                           \/ items[i].key = items[j].key /\ i < j
        kept == SelectSeq([i \in 1..n |-> i], Wins)
    IN  SortedByTime([p \in 1..Len(kept) |-> items[kept[p]]])

\* keep_per_metric = max(1, ceil(max_density * hours)), hours = max(duration / 3600, 1 / 60);
\* density in hundredths per hour, duration in seconds
keep_per_metric_plus_one(density, duration) ==
    1 + Max(1, (density * Max(duration, 60) + 359999) \div 360000)
keep_per_metric(density, duration) ==
    Max(1, (density * Max(duration, 60) + 359999) \div 360000)

\* _apply_precision_quality_gates, density part: per metric the keep_per_metric best
density_gate(items, density, duration) ==
    IF items = <<>> \/ ~(Max(0, density) > 0) THEN items
    ELSE LET n == Len(items)
             k == [i \in 1..n |-> items[i].key * 100 + items[i].ts]
             rank(i) == Cardinality({j \in 1..n :
                            /\ items[j].metric = items[i].metric
                            /\ k[j] > k[i] \/ (k[j] = k[i] /\ j < i)})
             Kept(i) == rank(i) < keep_per_metric(density, duration)
             kept == SelectSeq([i \in 1..n |-> i], Kept)
         IN  SortedByTime([p \in 1..Len(kept) |-> items[kept[p]]])

\* _apply_precision_quality_gates, root-cause part under a precision profile
root_cause_gate(rcs, min_display, min_corr_cfg, max_without_cfg) ==
    LET min_corr == Max(1, min_corr_cfg)
        max_without == Max(1, max_without_cfg)
        low_conf_cutoff == Max(min_display, 10)
        NotLow(c) == ~(c.key < low_conf_cutoff /\ Len(rcs) > 1)
        filtered == IF SelectSeq(rcs, NotLow) # <<>> THEN SelectSeq(rcs, NotLow) ELSE rcs
        Multi(c) == c.sig >= min_corr
    IN  IF SelectSeq(filtered, Multi) = <<>> /\ Len(filtered) > max_without
        THEN SubSeq(filtered, 1, max_without)
        ELSE filtered

\* rca.generate, from the candidate causes in the order it builds them: sort by
\* confidence, keep those at or above rca_min_confidence_display, or else the top
\* candidate alone with its hypothesis marked "[low_confidence] "
LowConfidence(hyp) == hyp + 100
generate(causes, min_display) ==
    LET sorted == SortedDesc(causes, [i \in 1..Len(causes) |-> causes[i].key])
        filtered == SelectSeq(sorted, LAMBDA c : c.key >= min_display)
    IN  IF filtered # <<>> THEN filtered
        ELSE IF sorted # <<>> THEN <<[sorted[1] EXCEPT !.hyp = LowConfidence(@)]>>
        ELSE sorted

\* ml.ranking.rank: final_score blends the confidence with ml_score, which is the
\* confidence itself unless a random forest was fitted (at least 4 causes, both labels
\* present, sklearn importable); the forest scores the causes at the positions in
\* ml.high with 1.0 and the others with 0.0. Sorted by final_score, descending.
rank(causes, ml) ==
    LET n == Len(causes)
        label(i) == causes[i].key >= RANKING_LABEL_THRESHOLD
        fitted == /\ ml.forest
                  /\ n >= 4
                  /\ \E i, j \in 1..n : label(i) /\ ~label(j)
        ml_score(i) == IF fitted THEN (IF i \in ml.high THEN 100 ELSE 0) ELSE causes[i].key
        final_score == [i \in 1..n |-> RANKING_CONFIDENCE_BLEND * causes[i].key
                                        + RANKING_ML_BLEND * ml_score(i)]
    IN  SortedDesc(causes, final_score)

\* profile.lower().startswith("precision")
is_precision(profile) == profile \in {"precision_strict_v1", "precision_v2"}

\* what the detectors can produce: item i of a stage's output
Item(i) == [metric |-> IF i % 3 = 0 THEN 2 ELSE 1, ts |-> i, key |-> 1 + (i % 2), sig |-> 0]
RootCause(i) == [metric |-> 0, ts |-> 0, key |-> IF i % 2 = 0 THEN 5 ELSE 50 + i,
                 sig |-> IF i = 3 THEN 2 ELSE 1, hyp |-> i]
ItemsOf(S) == SelectSeq([i \in 1..MaxItems |-> Item(i)], LAMBDA it : it.ts \in S)
RootCausesOf(S) ==
    LET idx == SelectSeq([i \in 1..MaxItems |-> i], LAMBDA i : i \in S)
    IN  [p \in 1..Len(idx) |-> RootCause(idx[p])]

\* one analysis: the request, the settings, and what the backends and detectors answer
BaseInput ==
    [tenant_id |-> "t1", start |-> 0, duration |-> 3600,
     logs |-> "ok", traces |-> "ok", slo_err |-> "ok", slo_tot |-> "ok",
     fetch_timeout |-> FALSE, metrics |-> [q \in MetricQueries |-> "ok"],
     metrics_timeout |-> FALSE, store_fails |-> FALSE,
     anoms |-> ItemsOf(1..MaxItems), cps |-> ItemsOf(1..MaxItems),
     rcs |-> RootCausesOf(1..MaxItems), clusters |-> ItemsOf(1..MaxItems),
     grangers |-> ItemsOf(1..MaxItems),
     caps |-> [ma |-> MaxCap, cp |-> MaxCap, rc |-> MaxCap, cl |-> MaxCap, gr |-> MaxCap],
     density |-> 75, profile |-> "precision_strict_v1",
     min_display |-> RCA_MIN_CONFIDENCE_DISPLAY, min_corr |-> MIN_CORROBORATION_SIGNALS,
     max_without |-> MAX_ROOT_CAUSES_WITHOUT_MULTISIGNAL,
     ml |-> [forest |-> FALSE, high |-> {}]]

\* every combination of backend failures, timeouts, malformed payloads and store failures
FaultInputs ==
    {[BaseInput EXCEPT !.logs = l, !.traces = t, !.slo_err = se, !.slo_tot = st,
                       !.fetch_timeout = ft, !.metrics = m, !.metrics_timeout = mt,
                       !.store_fails = sf] :
        l \in {"ok", "empty", "error", "malformed", "nondict"},
        t \in {"ok", "empty", "error", "malformed", "nondict"},
        se \in {"ok", "error", "malformed"}, st \in {"ok", "error", "malformed"},
        ft \in BOOLEAN, m \in [MetricQueries -> {"ok", "empty", "error", "nondict"}],
        mt \in BOOLEAN, sf \in BOOLEAN}

\* every combination of configured caps and of empty and full stage outputs
CapInputs ==
    {[BaseInput EXCEPT !.caps = c, !.anoms = ItemsOf(a), !.cps = ItemsOf(b),
                       !.rcs = RootCausesOf(r), !.clusters = ItemsOf(d),
                       !.grangers = ItemsOf(g), !.profile = p] :
        c \in [{"ma", "cp", "rc", "cl", "gr"} -> 0..MaxCap],
        a \in {{}, 1..MaxItems}, b \in {{}, 1..MaxItems}, r \in {{}, 1..MaxItems},
        d \in {{}, 1..MaxItems}, g \in {{}, 1..MaxItems},
        p \in {"precision_strict_v1", "balanced"}}

\* every window, density setting, profile and set of anomalies and root causes
GateInputs ==
    {[BaseInput EXCEPT !.duration = w, !.density = d, !.profile = p, !.anoms = ItemsOf(a),
                       !.rcs = RootCausesOf(r),
                       !.caps = [ma |-> MaxItems, cp |-> MaxItems, rc |-> MaxItems,
                                 cl |-> MaxItems, gr |-> MaxItems]] :
        w \in {30, 1800, 3600, 7200}, d \in {0, 75, 200},
        p \in {"precision_strict_v1", "balanced"},
        a \in SUBSET (1..MaxItems), r \in SUBSET (1..MaxItems)}

\* candidate cause i of rca.generate: its confidence in hundredths (60, 55, 9, 6, ...),
\* whether it carries two distinct signals, and its hypothesis
MaxCauses == 4
ConfidenceOf(i) == IF i <= 2 THEN 65 - 5 * i ELSE Max(1, 18 - 3 * i)
Candidate(i, multi, shared) ==
    [metric |-> 0, ts |-> 0, key |-> ConfidenceOf(i), sig |-> IF i \in multi THEN 2 ELSE 1,
     hyp |-> IF i \in shared THEN 0 ELSE i]
CandidatesOf(S, multi, shared) ==
    LET idx == SelectSeq([i \in 1..MaxCauses |-> i], LAMBDA i : i \in S)
    IN  [p \in 1..Len(idx) |-> Candidate(idx[p], multi, shared)]

\* every set of candidate causes, forest outcome and root-cause gate setting
RootCauseInputs ==
    {[BaseInput EXCEPT !.rcs = CandidatesOf(S, multi, shared), !.ml = [forest |-> f, high |-> h],
                       !.min_display = md, !.max_without = mw, !.profile = p,
                       !.caps = [ma |-> MaxCap, cp |-> MaxCap, rc |-> MaxCauses, cl |-> MaxCap,
                                 gr |-> MaxCap]] :
        S \in SUBSET (1..MaxCauses), multi \in {{}, {1}, {MaxCauses}},
        shared \in {{}, 1..2, 3..MaxCauses}, f \in BOOLEAN, h \in {{}, {2}, 1..MaxCauses},
        md \in {5, RCA_MIN_CONFIDENCE_DISPLAY}, mw \in 0..2,
        p \in {"precision_strict_v1", "balanced"}}

NoLists == [ma |-> <<>>, cp |-> <<>>, rc |-> <<>>, cl |-> <<>>, gr |-> <<>>]
NoReport == [tenant_id |-> "", start |-> 0, end |-> 0, summary |-> "", built |-> FALSE]

AnalyzerStart(inputs) ==
    /\ inp \in inputs
    /\ anPc = "fetch"
    /\ fetched = [logs |-> "pending", traces |-> "pending", slo_err |-> "pending",
                  slo_tot |-> "pending"]
    /\ found = [logs |-> FALSE, traces |-> FALSE, slo |-> FALSE, metrics |-> FALSE]
    /\ lists = NoLists
    /\ warnings = <<>>
    /\ report = NoReport

AnalyzerIdle ==
    /\ inp = [BaseInput EXCEPT !.anoms = <<>>, !.cps = <<>>, !.rcs = <<>>, !.clusters = <<>>,
                               !.grangers = <<>>]
    /\ anPc = "idle"
    /\ fetched = [logs |-> "pending", traces |-> "pending", slo_err |-> "pending",
                  slo_tot |-> "pending"]
    /\ found = [logs |-> FALSE, traces |-> FALSE, slo |-> FALSE, metrics |-> FALSE]
    /\ lists = NoLists
    /\ warnings = <<>>
    /\ report = NoReport

\* s with each tag of tags appended, in the order given
Warn(s, tags) == s \o tags

\* run: the gather of the logs, traces and two SLO queries under wait_for
FetchStage ==
    /\ anPc = "fetch"
    /\ fetched' = IF inp.fetch_timeout
                  THEN [logs |-> "error", traces |-> "error", slo_err |-> "error",
                        slo_tot |-> "error"]
                  ELSE [logs |-> inp.logs, traces |-> inp.traces, slo_err |-> inp.slo_err,
                        slo_tot |-> inp.slo_tot]
    /\ warnings' = IF inp.fetch_timeout THEN Warn(warnings, <<"fetch_timeout">>) ELSE warnings
    /\ anPc' = "metrics"
    /\ UNCHANGED <<inp, found, lists, report>>
    /\ UNCHANGED nonAnVars

\* run: _process_metrics under wait_for (fetch_metrics drops a failed query with
\* log.warning only; a response that is no dict raises inside fetch_metrics), then dedupe
MetricsStage ==
    /\ anPc = "metrics"
    /\ LET raised == \E q \in MetricQueries : inp.metrics[q] = "nondict"
           anyOk == \E q \in MetricQueries : inp.metrics[q] = "ok"
           usable == ~inp.metrics_timeout /\ ~raised /\ anyOk
       IN  /\ lists' = [lists EXCEPT !.ma = IF usable THEN dedupe(inp.anoms) ELSE <<>>,
                                     !.cp = IF usable THEN dedupe(inp.cps) ELSE <<>>]
           /\ found' = [found EXCEPT !.metrics = usable]
           /\ warnings' =
                Warn(warnings,
                     (IF inp.metrics_timeout THEN <<"metrics_timeout">>
                      ELSE IF raised THEN <<"metrics_unavailable">> ELSE <<>>)
                     \o (IF usable /\ Len(dedupe(inp.anoms)) < Len(inp.anoms)
                         THEN <<"deduplicated_metric_anomalies">> ELSE <<>>)
                     \o (IF usable /\ Len(dedupe(inp.cps)) < Len(inp.cps)
                         THEN <<"deduplicated_change_points">> ELSE <<>>))
    /\ anPc' = "logs"
    /\ UNCHANGED <<inp, fetched, report>>
    /\ UNCHANGED nonAnVars

\* run: the logs stage; logs_raw.get("data", {}).get("result", []) is outside any try
LogsStage ==
    /\ anPc = "logs"
    /\ anPc' = IF fetched.logs = "malformed" THEN "raised" ELSE "traces"
    /\ found' = [found EXCEPT !.logs = fetched.logs = "ok"]
    /\ warnings' = CASE fetched.logs = "empty" -> Warn(warnings, <<"logs_empty">>)
                     [] fetched.logs \in {"error", "nondict"} ->
                            Warn(warnings, <<"logs_unavailable">>)
                     [] OTHER -> warnings
    /\ UNCHANGED <<inp, fetched, lists, report>>
    /\ UNCHANGED nonAnVars

\* run: the traces stage; traces.analyze iterates tempo_response.get("traces", [])
TracesStage ==
    /\ anPc = "traces"
    /\ anPc' = IF fetched.traces = "malformed" THEN "raised" ELSE "slo"
    /\ found' = [found EXCEPT !.traces = fetched.traces = "ok"]
    /\ warnings' = CASE fetched.traces = "empty" -> Warn(warnings, <<"traces_empty">>)
                     [] fetched.traces \in {"error", "nondict"} ->
                            Warn(warnings, <<"traces_unavailable">>)
                     [] OTHER -> warnings
    /\ UNCHANGED <<inp, fetched, lists, report>>
    /\ UNCHANGED nonAnVars

\* run: the SLO stage; one warning when either query failed, else _slo_series_pairs
SloStage ==
    /\ anPc = "slo"
    /\ LET failed == fetched.slo_err = "error" \/ fetched.slo_tot = "error"
           malformed == fetched.slo_err = "malformed" \/ fetched.slo_tot = "malformed"
       IN  /\ anPc' = IF ~failed /\ malformed THEN "raised" ELSE "causal"
           /\ found' = [found EXCEPT !.slo = ~failed /\ ~malformed]
           /\ warnings' = IF failed THEN Warn(warnings, <<"slo_unavailable">>) ELSE warnings
    /\ UNCHANGED <<inp, fetched, lists, report>>
    /\ UNCHANGED nonAnVars

\* run: cluster, test_all_pairs, granger_store.save_and_merge in a try, rca.generate,
\* rank
CausalStage ==
    /\ anPc = "causal"
    /\ lists' = [lists EXCEPT
                    !.cl = IF lists.ma # <<>> THEN inp.clusters ELSE <<>>,
                    !.gr = IF found.metrics THEN inp.grangers ELSE <<>>,
                    !.rc = IF lists.ma # <<>> \/ found.logs \/ found.traces
                           THEN rank(generate(inp.rcs, inp.min_display), inp.ml)
                           ELSE <<>>]
    /\ warnings' = IF inp.store_fails THEN Warn(warnings, <<"granger_persist_failed">>)
                   ELSE warnings
    /\ anPc' = "limit"
    /\ UNCHANGED <<inp, fetched, found, report>>
    /\ UNCHANGED nonAnVars

\* run: _limit_analyzer_output
LimitOutput ==
    /\ anPc = "limit"
    /\ lists' = [ma |-> cap_list(lists.ma, inp.caps.ma), cp |-> cap_list(lists.cp, inp.caps.cp),
                 rc |-> cap_list(lists.rc, inp.caps.rc), cl |-> cap_list(lists.cl, inp.caps.cl),
                 gr |-> cap_list(lists.gr, inp.caps.gr)]
    /\ warnings' = Warn(warnings,
                        (IF Len(lists'.ma) < Len(lists.ma) THEN <<"capped_metric_anomalies">>
                         ELSE <<>>)
                        \o (IF Len(lists'.cp) < Len(lists.cp) THEN <<"capped_change_points">>
                            ELSE <<>>)
                        \o (IF Len(lists'.rc) < Len(lists.rc) THEN <<"capped_root_causes">>
                            ELSE <<>>)
                        \o (IF Len(lists'.cl) < Len(lists.cl) THEN <<"capped_clusters">>
                            ELSE <<>>)
                        \o (IF Len(lists'.gr) < Len(lists.gr) THEN <<"capped_granger">>
                            ELSE <<>>))
    /\ anPc' = "gate"
    /\ UNCHANGED <<inp, fetched, found, report>>
    /\ UNCHANGED nonAnVars

\* run: _apply_precision_quality_gates
QualityGates ==
    /\ anPc = "gate"
    /\ lists' = IF is_precision(inp.profile)
                THEN [lists EXCEPT !.ma = density_gate(lists.ma, inp.density, inp.duration),
                                   !.rc = root_cause_gate(lists.rc, inp.min_display, inp.min_corr,
                                                         inp.max_without)]
                ELSE lists
    /\ warnings' = Warn(warnings,
                        (IF Len(lists'.ma) < Len(lists.ma) THEN <<"density_suppressed">>
                         ELSE <<>>)
                        \o (IF Len(lists'.rc) < Len(lists.rc) THEN <<"root_causes_suppressed">>
                            ELSE <<>>))
    /\ anPc' = "report"
    /\ UNCHANGED <<inp, fetched, found, report>>
    /\ UNCHANGED nonAnVars

\* run: AnalysisReport(...), report.summary = _summary(report), return report
BuildReport ==
    /\ anPc = "report"
    /\ report' = [tenant_id |-> inp.tenant_id, start |-> inp.start,
                  end |-> inp.start + inp.duration, summary |-> "summary", built |-> TRUE]
    /\ anPc' = "done"
    /\ UNCHANGED <<inp, fetched, found, lists, warnings>>
    /\ UNCHANGED nonAnVars


(***************************************************************************)
(*        Fetch fan-out (engine/analyzer.py run, engine/fetcher.py)        *)
(***************************************************************************)
NumQueries == 3
MaxParallelCfg == 2
BatchQueries == 1..NumQueries
Fetches == {"logs", "traces", "slo_errors", "slo_total"}

\* fetch_metrics: max_parallel = max(1, int(settings.analyzer_max_parallel_metric_queries))
max_parallel_plus_one(n) == Max(1, n) + 1
max_parallel(n) == Max(1, n)

InFlight == {q \in BatchQueries : qPc[q] = "inflight"}

FanoutIdle ==
    /\ fanCfg = 1
    /\ fanPc = "start"
    /\ fetchPc = [f \in Fetches |-> "none"]
    /\ qPc = [q \in BatchQueries |-> "none"]
    /\ fanSem = 0

FanoutStart ==
    /\ fanCfg \in 0..MaxParallelCfg
    /\ fanPc = "start"
    /\ fetchPc = [f \in Fetches |-> "none"]
    /\ qPc = [q \in BatchQueries |-> "none"]
    /\ fanSem = 0

\* run: asyncio.gather of query_logs, query_traces and the two SLO query_metrics calls,
\* awaited under wait_for(analyzer_fetch_timeout_seconds)
IssueFetches ==
    /\ fanPc = "start"
    /\ fetchPc' = [f \in Fetches |-> "inflight"]
    /\ fanPc' = "fetch_wait"
    /\ UNCHANGED <<fanCfg, qPc, fanSem>>
    /\ UNCHANGED nonFanVars

\* one of the four fetches returns or raises (return_exceptions=True keeps either)
FetchReturns(f, outcome) ==
    /\ fanPc = "fetch_wait"
    /\ fetchPc[f] = "inflight"
    /\ fetchPc' = [fetchPc EXCEPT ![f] = outcome]
    /\ UNCHANGED <<fanCfg, fanPc, qPc, fanSem>>
    /\ UNCHANGED nonFanVars

\* run resumes after the gather: all four fetches are finished
FetchesGathered ==
    /\ fanPc = "fetch_wait"
    /\ \A f \in Fetches : fetchPc[f] \in {"returned", "raised"}
    /\ fanPc' = "metrics_call"
    /\ UNCHANGED <<fanCfg, fetchPc, qPc, fanSem>>
    /\ UNCHANGED nonFanVars

\* wait_for times out: the gather and its unfinished fetches are cancelled
FetchTimeout ==
    /\ fanPc = "fetch_wait"
    /\ \E f \in Fetches : fetchPc[f] = "inflight"
    /\ fetchPc' = [f \in Fetches |-> IF fetchPc[f] = "inflight" THEN "cancelled" ELSE fetchPc[f]]
    /\ fanPc' = "metrics_call"
    /\ UNCHANGED <<fanCfg, qPc, fanSem>>
    /\ UNCHANGED nonFanVars

\* run: await wait_for(_process_metrics(...)); fetch_metrics builds its semaphore and
\* gathers one _query coroutine per query
IssueMetricBatch ==
    /\ fanPc = "metrics_call"
    /\ fanSem' = max_parallel(fanCfg)
    /\ qPc' = [q \in BatchQueries |-> "waiting"]
    /\ fanPc' = "metrics_wait"
    /\ UNCHANGED <<fanCfg, fetchPc>>
    /\ UNCHANGED nonFanVars

\* _query: async with sem, then provider.query_metrics is awaited
QueryAcquire(q) ==
    /\ fanPc = "metrics_wait"
    /\ qPc[q] = "waiting"
    /\ ~SemLocked(fanSem)
    /\ fanSem' = fanSem - 1
    /\ qPc' = [qPc EXCEPT ![q] = "inflight"]
    /\ UNCHANGED <<fanCfg, fanPc, fetchPc>>
    /\ UNCHANGED nonFanVars

\* _query: provider.query_metrics returns or raises; the semaphore is released
QueryReturns(q, outcome) ==
    /\ fanPc = "metrics_wait"
    /\ qPc[q] = "inflight"
    /\ fanSem' = fanSem + 1
    /\ qPc' = [qPc EXCEPT ![q] = outcome]
    /\ UNCHANGED <<fanCfg, fanPc, fetchPc>>
    /\ UNCHANGED nonFanVars

\* fetch_metrics resumes after its gather
MetricsGathered ==
    /\ fanPc = "metrics_wait"
    /\ \A q \in BatchQueries : qPc[q] \in {"returned", "raised"}
    /\ fanPc' = "done"
    /\ UNCHANGED <<fanCfg, fetchPc, qPc, fanSem>>
    /\ UNCHANGED nonFanVars

\* wait_for(analyzer_metrics_timeout_seconds) times out: unfinished queries are cancelled
MetricsTimeout ==
    /\ fanPc = "metrics_wait"
    /\ \E q \in BatchQueries : qPc[q] \in {"waiting", "inflight"}
    /\ qPc' = [q \in BatchQueries |->
                  IF qPc[q] \in {"waiting", "inflight"} THEN "cancelled" ELSE qPc[q]]
    /\ fanSem' = fanSem + Cardinality(InFlight)
    /\ fanPc' = "done"
    /\ UNCHANGED <<fanCfg, fetchPc>>
    /\ UNCHANGED nonFanVars

\* ---------------------------------------------------------------------------
\* engine/analyzer.py: _dedupe_metric_anomalies on every order of one input
\* ---------------------------------------------------------------------------
MaxAnomalies == 3

\* Python's round: x / d to the nearest integer, a half to the even one
round_half_even(x, d) ==
    LET q == x \div d
        r == x % d
    IN  IF 2 * r < d THEN q
        ELSE IF 2 * r > d THEN q + 1
        ELSE IF q % 2 = 0 THEN q ELSE q + 1

\* int(round(timestamp)) for a timestamp in tenths of a second
round_timestamp(t) == round_half_even(t, 10)

Abs(z) == IF z < 0 THEN 0 - z ELSE z

\* _dedupe_metric_anomalies on MetricAnomaly records: per key (metric_name,
\* int(round(timestamp)), change_type) the first item is kept until a later one has a
\* greater severity weight, or the same weight and a greater abs(z_score); the values
\* of the dict come back sorted by (timestamp, metric_name)
dedupe_metric_anomalies(items) ==
    LET n == Len(items)
        key(i) == <<items[i].metric_name, round_timestamp(items[i].timestamp),
                    items[i].change_type>>
        Beats(i, j) == \/ items[i].severity > items[j].severity
                       \/ /\ items[i].severity = items[j].severity
                          /\ Abs(items[i].z_score) > Abs(items[j].z_score)
        Selected(i) == \A j \in 1..n :
                           (j # i /\ key(i) = key(j)) => (Beats(i, j) \/ (~Beats(j, i) /\ i < j))
        kept == SelectSeq([i \in 1..n |-> i], Selected)
        values == [p \in 1..Len(kept) |-> items[kept[p]]]
    IN  SortedDesc(values, [p \in 1..Len(values) |->
                                0 - (values[p].timestamp * 10 + values[p].metric_name)])

\* the anomalies a detector run can report: timestamps in tenths of a second, severity
\* weights, signed z-scores
MetricAnomalies ==
    { [metric_name |-> 1, timestamp |-> 12, change_type |-> "spike", severity |-> 2, z_score |-> 3],
      [metric_name |-> 1, timestamp |-> 14, change_type |-> "spike", severity |-> 2, z_score |-> 0 - 3],
      [metric_name |-> 1, timestamp |-> 10, change_type |-> "spike", severity |-> 3, z_score |-> 1],
      [metric_name |-> 1, timestamp |-> 15, change_type |-> "spike", severity |-> 2, z_score |-> 4],
      [metric_name |-> 1, timestamp |-> 25, change_type |-> "spike", severity |-> 2, z_score |-> 5],
      [metric_name |-> 2, timestamp |-> 12, change_type |-> "drop", severity |-> 1, z_score |-> 2] }

Elements(seq) == {seq[i] : i \in 1..Len(seq)}

DedupIdle ==
    /\ dedupItems = <<>>
    /\ dedupRef = {}
    /\ dedupOut = <<>>
    /\ dedupPc = "start"

DedupStart ==
    /\ dedupItems \in UNION {[1..n -> MetricAnomalies] : n \in 0..MaxAnomalies}
    /\ dedupRef = {}
    /\ dedupOut = <<>>
    /\ dedupPc = "start"

\* a call of _dedupe_metric_anomalies on the list in its present order
CallDedupe ==
    /\ dedupPc \in {"start", "reordered"}
    /\ dedupOut' = dedupe_metric_anomalies(dedupItems)
    /\ dedupRef' = IF dedupPc = "start" THEN Elements(dedupe_metric_anomalies(dedupItems))
                   ELSE dedupRef
    /\ dedupPc' = "called"
    /\ UNCHANGED <<dedupItems, nonDedupVars>>

\* the caller presents the same multiset in another order: two neighbours swapped
Reorder(k) ==
    /\ dedupPc = "called"
    /\ k \in 1..(Len(dedupItems) - 1)
    /\ dedupItems[k] # dedupItems[k + 1]
    /\ dedupItems' = [dedupItems EXCEPT ![k] = dedupItems[k + 1], ![k + 1] = dedupItems[k]]
    /\ dedupPc' = "reordered"
    /\ UNCHANGED <<dedupRef, dedupOut, nonDedupVars>>

\* ---------------------------------------------------------------------------
\* engine/baseline/compute.py, store/baseline.py: compute, _blend,
\* compute_and_persist. Values are whole numbers of 1e-7.
\* ---------------------------------------------------------------------------
MaxCalls == 2

\* 1.0
ONE == 10000000
\* settings.baseline_min_samples, settings.baseline_seasonal_min_samples
BASELINE_MIN_SAMPLES == 6
BASELINE_SEASONAL_MIN_SAMPLES == 24
\* _BLEND_ALPHA, in tenths; the sample_count from which a cached baseline is blended
BLEND_ALPHA == 3
BLEND_MIN_SAMPLES == 20

RECURSIVE SumSeq(_)
SumSeq(xs) == IF xs = <<>> THEN 0 ELSE Head(xs) + SumSeq(Tail(xs))

\* np.mean and np.std (population) of a list; the samples drawn below make both whole
np_mean(xs) == SumSeq(xs) \div Len(xs)
np_std(xs) ==
    LET m == np_mean(xs)
        variance == SumSeq([i \in 1..Len(xs) |-> (xs[i] - m) * (xs[i] - m)]) \div Len(xs)
    IN  CHOOSE r \in 0..variance : r * r <= variance /\ (r + 1) * (r + 1) > variance

\* float(np.std(...)) or 1.0
or_one(s) == IF s = 0 THEN ONE ELSE s

\* _hour_buckets
hour_bucket(t) == (t % 86400) \div 3600

\* compute: the mean and std of the values, or from baseline_seasonal_min_samples
\* samples on the std of the values detrended by their hour's average, with the mean of
\* the hour averages as seasonal_mean ({} stands for None); bounds at z_threshold stds
compute(ts, vals, z_threshold) ==
    LET n == Len(vals)
        m == np_mean(vals)
        buckets == [i \in 1..n |-> hour_bucket(ts[i])]
        bucket_map(h) == LET idx == SelectSeq([i \in 1..n |-> i], LAMBDA i : buckets[i] = h)
                         IN  [p \in 1..Len(idx) |-> vals[idx[p]]]
        hours == {buckets[i] : i \in 1..n}
        hour_avgs == [h \in hours |-> np_mean(bucket_map(h))]
        detrended == [i \in 1..n |-> vals[i] - hour_avgs[buckets[i]]]
        seasonal == n >= BASELINE_MIN_SAMPLES /\ n >= BASELINE_SEASONAL_MIN_SAMPLES
        s == IF seasonal THEN or_one(np_std(detrended)) ELSE or_one(np_std(vals))
    IN  [mean |-> m, std |-> s, lower |-> m - z_threshold * s, upper |-> m + z_threshold * s,
         seasonal_mean |-> IF seasonal
                           THEN {SumSeq([h \in 1..24 |-> IF (h - 1) \in hours THEN hour_avgs[h - 1]
                                                         ELSE 0]) \div Cardinality(hours)}
                           ELSE {},
         sample_count |-> n]

\* round(x, 6) of a value given in 1e-8, as a whole number of 1e-7
round6(x) == 10 * round_half_even(x, 100)

\* a or b on Optional[float]: None and 0.0 are falsy
seasonal_or(a, b) == IF a # {} /\ a # {0} THEN a ELSE b

\* _blend: a = 1.0 - _BLEND_ALPHA; computed in 1e-8, where the floor 1e-9 of
\* max(blended_std, 1e-9) lies between 0 and 1
blend(cached, fresh) ==
    LET a == 10 - BLEND_ALPHA
        blended_mean == a * cached.mean + BLEND_ALPHA * fresh.mean
        blended_std == a * cached.std + BLEND_ALPHA * fresh.std
    IN  [mean |-> round6(blended_mean),
         std |-> IF blended_std >= 1 THEN round6(blended_std) ELSE 0,
         lower |-> round6(blended_mean - 3 * blended_std),
         upper |-> round6(blended_mean + 3 * blended_std),
         seasonal_mean |-> seasonal_or(fresh.seasonal_mean, cached.seasonal_mean),
         sample_count |-> cached.sample_count + fresh.sample_count]

\* the sample lists of a metric query: n values alternating between two levels, one
\* every `step` seconds
SampleSizes == {2, BASELINE_MIN_SAMPLES, BLEND_MIN_SAMPLES, BASELINE_SEASONAL_MIN_SAMPLES}
Levels == {0, 2}
Steps == {60, 3600}
Vals(n, lo, hi) == [i \in 1..n |-> IF i % 2 = 1 THEN lo ELSE hi]
Ts(n, step) == [i \in 1..n |-> (i - 1) * step]

NoCall == [samples |-> <<>>, cached |-> {}, fresh |-> {}, result |-> {}]

BaselineIdle ==
    /\ blStored = {}
    /\ blLast = NoCall
    /\ blCalls = 0

\* compute_and_persist: compute, load (None on a miss or a failed read), blend or take
\* fresh, save (redis_set keeps nothing when Redis is away and the fallback is full)
ComputeAndPersist(n, lo, hi, step, z_threshold, loaded, saved) ==
    /\ blCalls < MaxCalls
    /\ LET fresh == compute(Ts(n, step), Vals(n, lo, hi), z_threshold)
           cached == IF loaded THEN blStored ELSE {}
           result == IF \E c \in cached : c.sample_count >= BLEND_MIN_SAMPLES
                     THEN blend(CHOOSE c \in cached : TRUE, fresh)
                     ELSE fresh
       IN  /\ blStored' = IF saved THEN {result} ELSE blStored
           /\ blLast' = [samples |-> <<Ts(n, step), Vals(n, lo, hi), z_threshold>>,
                          cached |-> cached, fresh |-> {fresh}, result |-> {result}]
    /\ blCalls' = blCalls + 1
    /\ UNCHANGED nonBaselineVars

\* ---------------------------------------------------------------------------
\* store/granger.py: save_and_merge called by concurrent analyses. The store
\* answers every read and write.
\* ---------------------------------------------------------------------------
MaxMerges == 3
MaxStrength == 2

Pairs == {"a>>>b", "b>>>a"}
Strengths == 1..MaxStrength

\* the fresh_results of a call: one result per pair of a non-empty set of pairs
FreshResults ==
    UNION {{<<[pair |-> "a>>>b", strength |-> x]>>,
            <<[pair |-> "b>>>a", strength |-> x]>>,
            <<[pair |-> "a>>>b", strength |-> x], [pair |-> "b>>>a", strength |-> y]>>} :
           x \in Strengths, y \in Strengths}

\* the body of save_and_merge between its two awaits: the dict built from the cached
\* list, each fresh result put in when its pair is absent or its strength is greater,
\* and the values sorted by strength, descending
RECURSIVE merge_into(_, _)
merge_into(entries, fresh) ==
    IF fresh = <<>> THEN entries
    ELSE LET r == Head(fresh)
             at == {i \in 1..Len(entries) : entries[i].pair = r.pair}
             next == IF at = {} THEN Append(entries, r)
                     ELSE IF \E i \in at : r.strength > entries[i].strength
                          THEN [i \in 1..Len(entries) |-> IF i \in at THEN r ELSE entries[i]]
                          ELSE entries
         IN  merge_into(next, Tail(fresh))
merged(cached, fresh) ==
    LET entries == merge_into(cached, fresh)
    IN  SortedDesc(entries, [i \in 1..Len(entries) |-> entries[i].strength])

\* the greatest strength among what was submitted before and the results of fresh for p
max_submitted(before, fresh, p) ==
    LET S == {before} \cup {fresh[i].strength : i \in {k \in 1..Len(fresh) : fresh[k].pair = p}}
    IN  CHOOSE m \in S : \A x \in S : x <= m

GrangerIdle ==
    /\ grStored = <<>>
    /\ grPc = [c \in Analyses |-> "idle"]
    /\ grCached = [c \in Analyses |-> <<>>]
    /\ grFresh = [c \in Analyses |-> <<>>]
    /\ grSubmitted = [p \in Pairs |-> 0]
    /\ grCalls = 0

\* save_and_merge up to the return of `await load(...)`
MergeLoad(c, fresh) ==
    /\ grPc[c] = "idle"
    /\ grCalls < MaxMerges
    /\ grCalls' = grCalls + 1
    /\ grPc' = [grPc EXCEPT ![c] = "loaded"]
    /\ grCached' = [grCached EXCEPT ![c] = grStored]
    /\ grFresh' = [grFresh EXCEPT ![c] = fresh]
    /\ grSubmitted' = [p \in Pairs |-> max_submitted(grSubmitted[p], fresh, p)]
    /\ UNCHANGED <<grStored, nonGrangerVars>>

\* save_and_merge from there to its return: merge and redis_set
MergeSave(c) ==
    /\ grPc[c] = "loaded"
    /\ grStored' = merged(grCached[c], grFresh[c])
    /\ grPc' = [grPc EXCEPT ![c] = "idle"]
    /\ grCached' = [grCached EXCEPT ![c] = <<>>]
    /\ grFresh' = [grFresh EXCEPT ![c] = <<>>]
    /\ UNCHANGED <<grSubmitted, grCalls, nonGrangerVars>>

\* ---------------------------------------------------------------------------
\* engine/analyzer.py: run, overall severity of the report. A signal list is the
\* sequence of the severities of its items.
\* ---------------------------------------------------------------------------
MaxForecasts == 2

SEVERITY_WEIGHTS == [low |-> 1, medium |-> 2, high |-> 4, critical |-> 8]
Severities == DOMAIN SEVERITY_WEIGHTS

\* Severity.weight
weight(severity) == SEVERITY_WEIGHTS[severity]

\* _overall_severity: the first severity of the greatest weight above Severity.low
RECURSIVE overall_severity_from(_, _)
overall_severity_from(best, items) ==
    IF items = <<>> THEN best
    ELSE overall_severity_from(IF weight(Head(items)) > weight(best) THEN Head(items) ELSE best,
                               Tail(items))
overall_severity(groups) == overall_severity_from("low", groups)

\* run: has_actionable_now
has_actionable_now_always(in) == TRUE
has_actionable_now(in) ==
    \/ in.metric_anomalies # <<>>
    \/ in.log_bursts # <<>>
    \/ in.log_patterns # <<>>
    \/ in.service_latency # <<>>
    \/ in.error_propagation # <<>>
    \/ in.slo_alerts # <<>>
    \/ in.root_causes # <<>>

has_predictive(in) ==
    in.forecasts # <<>> \/ in.degradation_signals # <<>> \/ in.change_points # <<>>

NoSignals ==
    [metric_anomalies |-> <<>>, log_bursts |-> <<>>, log_patterns |-> <<>>,
     service_latency |-> <<>>, error_propagation |-> <<>>, slo_alerts |-> <<>>,
     root_causes |-> <<>>, forecasts |-> <<>>, degradation_signals |-> <<>>,
     change_points |-> <<>>]

\* what the stages of run can leave: every list of up to MaxForecasts forecasts, each
\* other list empty or with one item
SignalLists ==
    {[metric_anomalies |-> ma, log_bursts |-> lb, log_patterns |-> lp, service_latency |-> sl,
      error_propagation |-> ep, slo_alerts |-> slo, root_causes |-> rc, forecasts |-> fc,
      degradation_signals |-> dg, change_points |-> cp] :
        ma \in {<<>>, <<"critical">>}, lb \in {<<>>, <<"low">>}, lp \in {<<>>, <<"high">>},
        sl \in {<<>>, <<"medium">>}, ep \in {<<>>, <<"high">>}, slo \in {<<>>, <<"critical">>},
        rc \in {<<>>, <<"high">>},
        fc \in UNION {[1..n -> Severities] : n \in 0..MaxForecasts},
        dg \in {<<>>, <<"critical">>}, cp \in {<<>>, <<"high">>}}

SeverityIdle ==
    /\ sevIn = NoSignals
    /\ sevPc = "idle"
    /\ sevReport = [overall_severity |-> "low", analysis_warnings |-> <<>>]

SeverityStart ==
    /\ sevIn \in SignalLists
    /\ sevPc = "gated"
    /\ sevReport = [overall_severity |-> "low", analysis_warnings |-> <<>>]

\* run: severity = _overall_severity(...), the cap for predictive-only findings, and
\* the AnalysisReport
ReportSeverity ==
    /\ sevPc = "gated"
    /\ LET severity == overall_severity(sevIn.metric_anomalies \o sevIn.log_bursts
                                          \o sevIn.log_patterns \o sevIn.service_latency
                                          \o sevIn.slo_alerts \o sevIn.forecasts)
           capped == /\ ~has_actionable_now(sevIn)
                     /\ has_predictive(sevIn)
                     /\ weight(severity) > weight("medium")
       IN  sevReport' = [overall_severity |-> IF capped THEN "medium" ELSE severity,
                         analysis_warnings |-> IF capped THEN <<"severity_capped_at_medium">>
                                               ELSE <<>>]
    /\ sevPc' = "done"
    /\ UNCHANGED <<sevIn, nonSeverityVars>>

\* ---------------------------------------------------------------------------
\* main.py: background backend readiness check and GET /api/v1/ready
\* ---------------------------------------------------------------------------
Backends == {"loki", "mimir", "victoriametrics", "tempo"}

\* the checks list built by _wait_for_all_bg
checks(settings) ==
    (IF settings.logs_backend = "loki" THEN {"loki"} ELSE {})
    \cup (IF settings.metrics_backend = "mimir" THEN {"mimir"}
          ELSE IF settings.metrics_backend = "victoriametrics" THEN {"victoriametrics"}
          ELSE {})
    \cup (IF settings.traces_backend = "tempo" THEN {"tempo"} ELSE {})

\* _wait_for_all_bg: the value given to _backend_ready after the results were read
ready_after_checks(all_ok) == TRUE

NoAnswer == [code |-> 0, ready |-> FALSE, at |-> "none"]

ReadyIdle ==
    /\ rdSettings = [logs_backend |-> "loki", metrics_backend |-> "mimir",
                     traces_backend |-> "tempo"]
    /\ rdPc = "idle"
    /\ rdResult = [b \in Backends |-> "pending"]
    /\ rdStatus = [b \in Backends |-> "none"]
    /\ rdReady = FALSE
    /\ rdResp = NoAnswer

ReadyStart ==
    /\ rdSettings \in [logs_backend : {"loki", "other"},
                       metrics_backend : {"mimir", "victoriametrics", "other"},
                       traces_backend : {"tempo", "other"}]
    /\ rdPc = "start"
    /\ rdResult = [b \in Backends |-> "pending"]
    /\ rdStatus = [b \in Backends |-> "none"]
    /\ rdReady = FALSE
    /\ rdResp = NoAnswer

\* _wait_for_all_bg up to the gather: every configured backend is "waiting"
StartChecks ==
    /\ rdPc = "start"
    /\ rdStatus' = [b \in Backends |-> IF b \in checks(rdSettings) THEN "waiting" ELSE "none"]
    /\ rdPc' = "gather"
    /\ UNCHANGED <<rdSettings, rdResult, rdReady, rdResp, nonReadyVars>>

\* wait_for of one backend returns, or raises BackendStartupTimeout
WaitForEnds(b, outcome) ==
    /\ rdPc = "gather"
    /\ b \in checks(rdSettings)
    /\ rdResult[b] = "pending"
    /\ rdResult' = [rdResult EXCEPT ![b] = outcome]
    /\ UNCHANGED <<rdSettings, rdPc, rdStatus, rdReady, rdResp, nonReadyVars>>

\* the gather returns: _backend_status per check, then _backend_ready
ChecksGathered ==
    /\ rdPc = "gather"
    /\ \A b \in checks(rdSettings) : rdResult[b] # "pending"
    /\ rdStatus' = [b \in Backends |->
                       IF b \notin checks(rdSettings) THEN rdStatus[b]
                       ELSE IF rdResult[b] = "exception" THEN "failed" ELSE "ready"]
    /\ rdReady' = ready_after_checks(\A b \in checks(rdSettings) : rdResult[b] = "ok")
    /\ rdPc' = "finished"
    /\ UNCHANGED <<rdSettings, rdResult, rdResp, nonReadyVars>>

\* lifespan shutdown: readiness_task.cancel() while the gather is awaited
CancelChecks ==
    /\ rdPc = "gather"
    /\ rdPc' = "cancelled"
    /\ UNCHANGED <<rdSettings, rdResult, rdStatus, rdReady, rdResp, nonReadyVars>>

\* GET /api/v1/ready
ready ==
    /\ rdPc # "idle"
    /\ rdResp' = [code |-> IF rdReady THEN 200 ELSE 503, ready |-> rdReady, at |-> rdPc]
    /\ UNCHANGED <<rdSettings, rdPc, rdResult, rdStatus, rdReady, nonReadyVars>>

\* ---------------------------------------------------------------------------
\* engine/slo/burn.py: evaluate. Availability in thousandths, thresholds in tenths,
\* burn_rate in thousandths, error_rate in millionths, budget_consumed_pct in hundredths.
\* ---------------------------------------------------------------------------
MaxErrors == 2

\* settings.slo_burn_windows
SLO_BURN_WINDOWS ==
    << [label |-> "1h", window_s |-> 3600, threshold |-> 144, severity |-> "critical"],
       [label |-> "6h", window_s |-> 21600, threshold |-> 60, severity |-> "high"],
       [label |-> "1d", window_s |-> 86400, threshold |-> 30, severity |-> "medium"],
       [label |-> "3d", window_s |-> 259200, threshold |-> 10, severity |-> "low"] >>

\* evaluate: `if duration < window_s * 0.5: continue`
window_covered_always(duration, window_s) == TRUE
window_covered(duration, window_s) == 2 * duration >= window_s

\* evaluate; budget_consumed_pct = min(100, burn_rate * duration / slo_month_seconds * 100)
\* with slo_month_seconds = 2592000, for durations that are multiples of 1800 s
evaluate(error_counts, total_counts, ts, target_availability) ==
    IF error_counts = <<>> \/ total_counts = <<>> \/ Len(ts) < 2 THEN <<>>
    ELSE LET n == IF Len(error_counts) < Len(total_counts) THEN Len(error_counts)
                  ELSE Len(total_counts)
             duration == Max(0, ts[Len(ts)] - ts[1])
             total == SumSeq(SubSeq(total_counts, 1, n))
             errors == SumSeq(SubSeq(error_counts, 1, n))
             allowed_error_rate == 1000 - target_availability
             \* burn_rate >= threshold, both sides multiplied by 10 * total * allowed;
             \* 1.0 - 0.999 and 1.0 - 0.99 in binary floating point exceed 0.001 and 0.01,
             \* so a burn rate that equals the threshold exactly computes just below it
             Burns(w) == errors * 10000 > w.threshold * total * allowed_error_rate
             hit == {k \in 1..Len(SLO_BURN_WINDOWS) :
                        /\ window_covered(duration, SLO_BURN_WINDOWS[k].window_s)
                        /\ Burns(SLO_BURN_WINDOWS[k])}
         IN  IF total = 0 \/ allowed_error_rate <= 0 \/ hit = {} THEN <<>>
             ELSE LET w == SLO_BURN_WINDOWS[CHOOSE k \in hit : \A j \in hit : k <= j]
                  IN  << [window_label |-> w.label,
                          error_rate |-> round_half_even(errors * 1000000, total),
                          burn_rate |-> round_half_even(errors * 1000000,
                                                        total * allowed_error_rate),
                          budget_consumed_pct |->
                              LET pct == round_half_even(errors * (duration \div 1800) * 62500,
                                                         total * allowed_error_rate * 9)
                              IN  IF pct > 10000 THEN 10000 ELSE pct,
                          severity |-> w.severity] >>

\* the arguments: n equal error counts, m equal total counts, n timestamps from 0 to span
SloSpans == {1800, 3600, 10800, 43200, 129600}
SloArguments ==
    {[error_counts |-> [i \in 1..n |-> e], total_counts |-> [i \in 1..m |-> t],
      ts |-> [i \in 1..n |-> ((i - 1) * span) \div 39], target_availability |-> a] :
        n \in {0, 1, 40}, m \in {0, 39, 40}, e \in 0..MaxErrors, t \in {0, 100},
        span \in SloSpans, a \in {990, 999, 1000}}

SloIdle ==
    /\ sloIn = [error_counts |-> <<>>, total_counts |-> <<>>, ts |-> <<>>,
                target_availability |-> 999]
    /\ sloPc = "idle"
    /\ sloOut = <<>>

SloStart ==
    /\ sloIn \in SloArguments
    /\ sloPc = "called"
    /\ sloOut = <<>>

Evaluate ==
    /\ sloPc = "called"
    /\ sloOut' = evaluate(sloIn.error_counts, sloIn.total_counts, sloIn.ts,
                          sloIn.target_availability)
    /\ sloPc' = "returned"
    /\ UNCHANGED <<sloIn, nonSloVars>>

\* ---------------------------------------------------------------------------
\* engine/registry.py: update_weight calls of one tenant running concurrently on the
\* event loop. A call is suspended only at its awaits: weight_store.load inside
\* get_state, and weight_store.save.
\* ---------------------------------------------------------------------------
NumUpdaters == 2
Updaters == 1..NumUpdaters
\* TenantState objects: the one cached before the first call, and one per call
ObjIds == {0} \cup Updaters

\* weight_store.save: the payload of a state
payload_of(st) ==
    [present |-> TRUE, isdict |-> TRUE, vals |-> st.num, den |-> st.den, count |-> st.count]

RegistryIdle ==
    /\ rgStored = NoStored
    /\ rgStates = -1
    /\ rgObj = [o \in ObjIds |-> NoState]
    /\ rgPc = [u \in Updaters |-> "idle"]
    /\ rgRead = [u \in Updaters |-> NoStored]
    /\ rgStart = 0

RegistryStart ==
    /\ rgStored \in {NoStored} \cup {payload_of([NoState EXCEPT !.count = k]) : k \in 0..1}
    /\ \E preloaded \in BOOLEAN :
          /\ rgStates = IF preloaded THEN 0 ELSE -1
          /\ rgObj = [o \in ObjIds |-> IF preloaded /\ o = 0 THEN state_of(rgStored) ELSE NoState]
    /\ rgPc = [u \in Updaters |-> "idle"]
    /\ rgRead = [u \in Updaters |-> NoStored]
    /\ rgStart = state_of(rgStored).count

\* update_weight on a tenant whose state is cached: get_state returns it without
\* suspending, state.update_weight, and weight_store.save is issued
UpdateCached(u, signal, was_correct) ==
    /\ rgPc[u] = "idle"
    /\ rgStates # -1
    /\ rgObj' = [rgObj EXCEPT ![rgStates] = update_weight(@, signal, was_correct)]
    /\ rgStored' = payload_of(rgObj'[rgStates])
    /\ rgPc' = [rgPc EXCEPT ![u] = "save"]
    /\ UNCHANGED <<rgStates, rgRead, rgStart, nonRegistryVars>>

\* update_weight on a tenant that is not in _states: get_state awaits weight_store.load
UpdateCallsLoad(u) ==
    /\ rgPc[u] = "idle"
    /\ rgStates = -1
    /\ rgPc' = [rgPc EXCEPT ![u] = "load"]
    /\ UNCHANGED <<rgStored, rgStates, rgObj, rgRead, rgStart, nonRegistryVars>>

\* weight_store.load reads the store
LoadReads(u) ==
    /\ rgPc[u] = "load"
    /\ rgRead' = [rgRead EXCEPT ![u] = rgStored]
    /\ rgPc' = [rgPc EXCEPT ![u] = "loaded"]
    /\ UNCHANGED <<rgStored, rgStates, rgObj, rgStart, nonRegistryVars>>

\* get_state resumes: it builds a TenantState from what was read, assigns it to
\* _states[tenant] and returns _states[tenant]; update_weight updates that state and
\* issues weight_store.save
LoadResumes(u, signal, was_correct) ==
    /\ rgPc[u] = "loaded"
    /\ rgStates' = u
    /\ rgObj' = [rgObj EXCEPT ![u] = update_weight(state_of(rgRead[u]), signal, was_correct)]
    /\ rgStored' = payload_of(rgObj'[u])
    /\ rgPc' = [rgPc EXCEPT ![u] = "save"]
    /\ UNCHANGED <<rgRead, rgStart, nonRegistryVars>>

\* weight_store.save returns and update_weight returns the state
SaveReturns(u) ==
    /\ rgPc[u] = "save"
    /\ rgPc' = [rgPc EXCEPT ![u] = "done"]
    /\ UNCHANGED <<rgStored, rgStates, rgObj, rgRead, rgStart, nonRegistryVars>>

\* ---------------------------------------------------------------------------
\* engine/correlation/temporal.py: correlate. Times in ticks of 45 s, scores in
\* thousandths. An input object is identified by its position in its list.
\* ---------------------------------------------------------------------------
MaxSignals == 3
MaxAnchor == 2
\* settings.correlation_window_seconds, one tick
CORRELATION_WINDOW == 1
\* settings.correlation_weight_time, correlation_weight_latency, correlation_weight_errors,
\* correlation_score_max, correlation_errors_cap
CORRELATION_WEIGHT_TIME == 300
CORRELATION_WEIGHT_LATENCY == 350
CORRELATION_WEIGHT_ERRORS == 350
CORRELATION_SCORE_MAX == 1000
CORRELATION_ERRORS_CAP == 350

Min(a, b) == IF a <= b THEN a ELSE b

\* _overlap
overlap(a_start, a_end, b_start, b_end) == a_start <= b_end /\ b_start <= a_end

\* the positions i of lst with Keep(i), in list order
Positions(lst, Keep(_)) == SelectSeq([i \in 1..Len(lst) |-> i], Keep)

\* the set of values of a sequence
ValuesOf(lst) == {lst[i] : i \in 1..Len(lst)}

\* correlate, the body of `for anchor in anchor_times` for an anchor that is not used:
\* the event of the window around the anchor
event_at(metric_anomalies, log_bursts, service_latency, window_seconds, anchor) ==
    LET w_start == anchor - window_seconds
        w_end == anchor + window_seconds
        ma == Positions(metric_anomalies,
                        LAMBDA i : w_start <= metric_anomalies[i].timestamp
                                   /\ metric_anomalies[i].timestamp <= w_end)
        lb == Positions(log_bursts,
                        LAMBDA i : overlap(w_start, w_end, log_bursts[i].start, log_bursts[i].end))
        correlated_services ==
            ({metric_anomalies[i].service : i \in ValuesOf(ma)}
             \cup {log_bursts[i].service : i \in ValuesOf(lb)}) \ {""}
        sl == Positions(service_latency,
                        LAMBDA i : /\ service_latency[i].service # ""
                                   /\ service_latency[i].service \in correlated_services
                                   /\ overlap(w_start, w_end, service_latency[i].window_start,
                                              service_latency[i].window_end))
        metric_score == Min(CORRELATION_SCORE_MAX, Len(ma) * CORRELATION_WEIGHT_TIME)
        log_score == Min(CORRELATION_SCORE_MAX, Len(lb) * CORRELATION_WEIGHT_LATENCY)
        trace_score == Min(CORRELATION_ERRORS_CAP, Len(sl) * CORRELATION_WEIGHT_ERRORS)
    IN  [window_start |-> w_start, window_end |-> w_end, metric_anomalies |-> ma,
         log_bursts |-> lb, service_latency |-> sl,
         signal_count |-> Len(ma) + Len(lb) + Len(sl),
         confidence |-> Min(CORRELATION_SCORE_MAX, metric_score + log_score + trace_score)]

\* correlate, the loop over the sorted anchor times from position k on
RECURSIVE correlate_from(_, _, _, _, _, _, _, _)
correlate_from(metric_anomalies, log_bursts, service_latency, window_seconds, anchor_times, k, used, evts) ==
    IF k > Len(anchor_times) THEN evts
    ELSE LET anchor == anchor_times[k]
             e == event_at(metric_anomalies, log_bursts, service_latency, window_seconds, anchor)
             Go(u, ev) == correlate_from(metric_anomalies, log_bursts, service_latency,
                                         window_seconds, anchor_times, k + 1, u, ev)
         IN  IF anchor \in used THEN Go(used, evts)
             ELSE IF e.signal_count < 2 THEN Go(used, evts)
             ELSE Go(used \cup {a \in ValuesOf(anchor_times) :
                                    e.window_start <= a /\ a <= e.window_end},
                     Append(evts, e))

\* correlate
correlate(metric_anomalies, log_bursts, service_latency, window_seconds) ==
    LET anchor_candidates == [i \in 1..Len(metric_anomalies) |-> metric_anomalies[i].timestamp]
                             \o [i \in 1..Len(log_bursts) |-> log_bursts[i].start]
        anchor_times == SortedDesc(anchor_candidates,
                                   [i \in 1..Len(anchor_candidates) |-> 0 - anchor_candidates[i]])
        evts == correlate_from(metric_anomalies, log_bursts, service_latency, window_seconds,
                                 anchor_times, 1, {}, <<>>)
    IN  SortedDesc(evts, [i \in 1..Len(evts) |-> evts[i].confidence])

\* the arguments: up to MaxSignals metric anomalies, one log burst and one latency row,
\* with finite times
CorServices == {"", "checkout"}
SeqsUpTo(S, n) == UNION {[1..m -> S] : m \in 0..n}
CorrelateArguments ==
    [metric_anomalies : SeqsUpTo([timestamp : 0..MaxAnchor, service : CorServices], MaxSignals),
     log_bursts : SeqsUpTo({[start |-> t, end |-> t + d, service |-> sv] :
                              t \in 0..MaxAnchor, d \in 0..1, sv \in CorServices}, 1),
     service_latency : SeqsUpTo({[service |-> sv, window_start |-> t, window_end |-> t + 1] :
                                   sv \in CorServices, t \in {0, MaxAnchor + 2}}, 1)]

CorrelateIdle ==
    /\ corIn = [metric_anomalies |-> <<>>, log_bursts |-> <<>>, service_latency |-> <<>>]
    /\ corPc = "idle"
    /\ corOut = <<>>

CorrelateStart ==
    /\ corIn \in CorrelateArguments
    /\ corPc = "called"
    /\ corOut = <<>>

Correlate ==
    /\ corPc = "called"
    /\ corOut' = correlate(corIn.metric_anomalies, corIn.log_bursts, corIn.service_latency,
                           CORRELATION_WINDOW)
    /\ corPc' = "returned"
    /\ UNCHANGED <<corIn, nonCorrelateVars>>

(***************************************************************************)
(*                  Specifications and checked properties                  *)
(***************************************************************************)
NextJobs ==
    \/ \E j \in Jobs : CreateJob(j)
    \/ \E j \in Jobs : AcquireSlot(j)
    \/ \E j \in Jobs : ThreadGetRow(j)
    \/ \E j \in Jobs : ResumeGetRow(j)
    \/ \E j \in Jobs : ThreadMarkRunning(j)
    \/ \E j \in Jobs : ResumeMarkRunning(j)
    \/ \E j \in Jobs : RunCompletes(j)
    \/ \E j \in Jobs : RunFails(j)
    \/ \E j \in Jobs : ThreadMarkCompleted(j)
    \/ \E j \in Jobs : ThreadMarkFailed(j)
    \/ \E j \in Jobs : ThreadMarkCancelled(j)
    \/ \E j \in Jobs : ResumeFinish(j)
    \/ \E j \in Jobs : DeleteDb(j)
    \/ \E j \in Jobs : DeleteCancel(j)
    \/ Shutdown

InitJobs == JobsStart /\ StoreIdle /\ KeysIdle /\ WeightsIdle /\ AnalyzerIdle /\ FanoutIdle /\ DedupIdle /\ BaselineIdle /\ GrangerIdle /\ SeverityIdle /\ ReadyIdle /\ SloIdle /\ RegistryIdle /\ CorrelateIdle

SpecJobs == InitJobs /\ [][NextJobs]_vars

NumRunning == Cardinality({j \in Jobs : jobStatus[j] = RUNNING})

\* C3 (as stated): at every moment the number of jobs with status running is at most
\* analyze_max_concurrency.
C3_RunningAtMostConfigured == NumRunning <= cfgMaxConc

\* C3 (amended): at every moment the number of jobs with status running is at most
\* max(1, analyze_max_concurrency), the size the job runner gives its semaphore.
C3_RunningAtMostSemaphoreSize == NumRunning <= Max(1, cfgMaxConc)

\* C3 witness: with analyze_max_concurrency = 2, two jobs are running while a third waits
\* for a slot.
C3_Witness ==
    /\ cfgMaxConc = 2
    /\ NumRunning = 2
    /\ \E j \in Jobs : taskPc[j] = "acquire"

\* C4: a job whose task was cancelled before it finished ends with status cancelled, and
\* no result of it is stored or can be retrieved.
C4_CancelledJobEndsCancelled ==
    \A j \in Jobs :
        (wasCancelled[j] /\ taskPc[j] = "done") =>
            /\ jobStatus[j] = CANCELLED
            /\ reportPayload[j] # "stored"
            /\ ~Retrievable(j)

\* every operation of store/client.py, under outages, timeouts and key expiry
NextStore ==
    \/ \E c \in Callers : StartOpConnected(c)
    \/ \E c \in Callers, op \in StoreOps : StartOpCooldown(c, op)
    \/ \E c \in Callers : StartOpConnect(c)
    \/ \E c \in Callers : StartOpWaitLock(c)
    \/ \E c \in Callers : AfterLockConnected(c)
    \/ \E c \in Callers, op \in StoreOps : AfterLockCooldown(c, op)
    \/ \E c \in Callers : AfterLockConnect(c)
    \/ \E c \in Callers : PingOk(c)
    \/ \E c \in Callers, op \in StoreOps : PingFail(c, op)
    \/ \E c \in Callers, op \in StoreOps : PrimaryOpOk(c, op)
    \/ \E c \in Callers, op \in StoreOps : PrimaryOpFail(c, op)
    \/ \E c \in Callers, op \in StoreOps : PrimaryOpTimeout(c, op)
    \/ \E k \in AllKeys : PrimaryExpire(k)
    \/ Tick
    \/ PrimaryToggle

InitStore == StoreStart /\ JobsIdle /\ KeysIdle /\ WeightsIdle /\ AnalyzerIdle /\ FanoutIdle /\ DedupIdle /\ BaselineIdle /\ GrangerIdle /\ SeverityIdle /\ ReadyIdle /\ SloIdle /\ RegistryIdle /\ CorrelateIdle

SpecStore == InitStore /\ [][NextStore]_vars

NextEvents ==
    \/ \E c \in Callers : StartOpConnected(c)
    \/ \E c \in Callers, op \in EventOps : StartOpCooldown(c, op)
    \/ \E c \in Callers : StartOpConnect(c)
    \/ \E c \in Callers : StartOpWaitLock(c)
    \/ \E c \in Callers : AfterLockConnected(c)
    \/ \E c \in Callers, op \in EventOps : AfterLockCooldown(c, op)
    \/ \E c \in Callers : AfterLockConnect(c)
    \/ \E c \in Callers : PingOk(c)
    \/ \E c \in Callers, op \in EventOps : PingFail(c, op)
    \/ \E c \in Callers, op \in EventOps : PrimaryOpOk(c, op)
    \/ \E c \in Callers, op \in EventOps : PrimaryOpFail(c, op)
    \/ \E c \in Callers, op \in EventOps : PrimaryOpTimeout(c, op)
    \/ Tick
    \/ PrimaryToggle

SpecEvents == InitStore /\ [][NextEvents]_vars

\* the appends that went to the given store, oldest first
AppendsTo(tier) ==
    SelectSeq([i \in 1..Len(appendLog) |-> i], LAMBDA i : appendLog[i] \in {tier, "both"})

C12_FallbackEntriesBounded ==
    FallbackLen(fallback) + Cardinality({k \in AllKeys : fallbackLists[k] # <<>>})
        <= MAX_FALLBACK_SIZE

\* get_redis under concurrent callers, outages and recoveries of the primary store
NextConnect ==
    \/ \E c \in Callers : StartOpConnected(c)
    \/ \E c \in Callers, op \in KvOps : StartOpCooldown(c, op)
    \/ \E c \in Callers : StartOpConnect(c)
    \/ \E c \in Callers : StartOpWaitLock(c)
    \/ \E c \in Callers : AfterLockConnected(c)
    \/ \E c \in Callers, op \in KvOps : AfterLockCooldown(c, op)
    \/ \E c \in Callers : AfterLockConnect(c)
    \/ \E c \in Callers : PingOk(c)
    \/ \E c \in Callers, op \in KvOps : PingFail(c, op)
    \/ \E c \in Callers, op \in KvOps : PrimaryOpOk(c, op)
    \/ \E c \in Callers, op \in KvOps : PrimaryOpFail(c, op)
    \/ \E c \in Callers, op \in KvOps : PrimaryOpTimeout(c, op)
    \/ Tick
    \/ PrimaryToggle

InitConnect == ConnectStart /\ JobsIdle /\ KeysIdle /\ WeightsIdle /\ AnalyzerIdle /\ FanoutIdle /\ DedupIdle /\ BaselineIdle /\ GrangerIdle /\ SeverityIdle /\ ReadyIdle /\ SloIdle /\ RegistryIdle /\ CorrelateIdle

SpecConnect == InitConnect /\ [][NextConnect]_vars

\* C11: at most one connection attempt to the primary store is in progress at any time,
\* and an attempt that starts after a failed one starts at least
\* store_redis_retry_cooldown_seconds after that failure
C11_OneAttemptAndCooldown ==
    /\ Cardinality({c \in Callers : callPc[c] = "ping"}) <= 1
    /\ connHist.prevFail # -1 =>
            connHist.startAt >= connHist.prevFail + REDIS_RETRY_COOLDOWN

\* a second caller waits for the lock while an attempt is in progress, and that attempt
\* is a retry made after the cooldown of an earlier failure ran out
C11_Witness ==
    /\ \E c \in Callers : callPc[c] = "ping"
    /\ \E c \in Callers : callPc[c] = "lock_wait"
    /\ connHist.prevFail # -1
    /\ connHist.startAt >= connHist.prevFail + REDIS_RETRY_COOLDOWN
    /\ REDIS_RETRY_COOLDOWN > 0

\* two requests of different tenants writing their keys
NextKeys ==
    \/ \E a \in Analyses, m \in MetricNames : SaveBaseline(a, m)
    \/ \E a \in Analyses, svc \in Services : SaveGranger(a, svc)
    \/ \E a \in Analyses : SaveWeights(a)
    \/ \E a \in Analyses : AppendEvent(a)

InitKeys == KeysStart /\ JobsIdle /\ StoreIdle /\ WeightsIdle /\ AnalyzerIdle /\ FanoutIdle /\ DedupIdle /\ BaselineIdle /\ GrangerIdle /\ SeverityIdle /\ ReadyIdle /\ SloIdle /\ RegistryIdle /\ CorrelateIdle

SpecKeys == InitKeys /\ [][NextKeys]_vars

\* s is a prefix of t
IsPrefix(s, t) == Len(s) <= Len(t) /\ SubSeq(t, 1, Len(s)) = s

\* bc:<tenant_id>:
TenantPrefix(tenant_id) == <<"bc", ":">> \o tenant_id \o <<":">>

\* C6: every key a request writes lies under its own tenant prefix and under no other
\* request's tenant prefix
C6_KeysConfinedToOwnPrefix ==
    \A w \in written :
        /\ IsPrefix(TenantPrefix(tenantOf[w.by]), w.key)
        /\ \A b \in Analyses \ {w.by} : ~IsPrefix(TenantPrefix(tenantOf[b]), w.key)

\* one tenant's weights over updates, resets, evictions and reloads
NextWeights ==
    \/ GetState
    \/ \E signal \in Signals, was_correct \in BOOLEAN : UpdateWeight(signal, was_correct)
    \/ ResetWeights
    \/ Evict

InitWeights == WeightsStart /\ JobsIdle /\ StoreIdle /\ KeysIdle /\ AnalyzerIdle /\ FanoutIdle /\ DedupIdle /\ BaselineIdle /\ GrangerIdle /\ SeverityIdle /\ ReadyIdle /\ SloIdle /\ RegistryIdle /\ CorrelateIdle

SpecWeights == InitWeights /\ [][NextWeights]_vars

\* C7: the weights of a loaded tenant state are all >= 0 and sum to 1
C7_WeightsNonNegativeAndSumToOne ==
    wstate.loaded =>
        /\ \A s \in Signals : wstate.num[s] >= 0
        /\ SumOf(wstate.num) = wstate.den

\* the stages of run, in program order
NextAnalyzer ==
    \/ FetchStage
    \/ MetricsStage
    \/ LogsStage
    \/ TracesStage
    \/ SloStage
    \/ CausalStage
    \/ LimitOutput
    \/ QualityGates
    \/ BuildReport

InitAnalyzerFaults ==
    AnalyzerStart(FaultInputs) /\ JobsIdle /\ StoreIdle /\ KeysIdle /\ WeightsIdle /\ FanoutIdle /\ DedupIdle /\ BaselineIdle /\ GrangerIdle /\ SeverityIdle /\ ReadyIdle /\ SloIdle /\ RegistryIdle /\ CorrelateIdle
InitAnalyzerCaps ==
    AnalyzerStart(CapInputs) /\ JobsIdle /\ StoreIdle /\ KeysIdle /\ WeightsIdle /\ FanoutIdle /\ DedupIdle /\ BaselineIdle /\ GrangerIdle /\ SeverityIdle /\ ReadyIdle /\ SloIdle /\ RegistryIdle /\ CorrelateIdle
InitAnalyzerGate ==
    AnalyzerStart(GateInputs) /\ JobsIdle /\ StoreIdle /\ KeysIdle /\ WeightsIdle /\ FanoutIdle /\ DedupIdle /\ BaselineIdle /\ GrangerIdle /\ SeverityIdle /\ ReadyIdle /\ SloIdle /\ RegistryIdle /\ CorrelateIdle
InitAnalyzerRootCauses ==
    AnalyzerStart(RootCauseInputs) /\ JobsIdle /\ StoreIdle /\ KeysIdle /\ WeightsIdle /\ FanoutIdle /\ DedupIdle /\ BaselineIdle /\ GrangerIdle /\ SeverityIdle /\ ReadyIdle /\ SloIdle /\ RegistryIdle /\ CorrelateIdle

SpecAnalyzerFaults == InitAnalyzerFaults /\ [][NextAnalyzer]_vars
SpecAnalyzerCaps == InitAnalyzerCaps /\ [][NextAnalyzer]_vars
SpecAnalyzerGate == InitAnalyzerGate /\ [][NextAnalyzer]_vars
SpecAnalyzerRootCauses == InitAnalyzerRootCauses /\ [][NextAnalyzer]_vars

\* C1: run raises no exception, and the report it returns carries the request's
\* tenant_id, start and end and a summary
C1_RunNeverRaises ==
    /\ anPc # "raised"
    /\ anPc = "done" =>
            /\ report.built
            /\ report.tenant_id = inp.tenant_id
            /\ report.start = inp.start
            /\ report.end = inp.start + inp.duration
            /\ report.summary # ""

\* the warnings recorded by run, as a set
Warned == {warnings[i] : i \in 1..Len(warnings)}

\* C2: in a returned report every failed fetch contributed nothing and has a warning
C2_EveryFailedFetchWarns ==
    anPc = "done" =>
        /\ (inp.fetch_timeout \/ inp.logs = "error") =>
                ~found.logs /\ "logs_unavailable" \in Warned
        /\ (inp.fetch_timeout \/ inp.traces = "error") =>
                ~found.traces /\ "traces_unavailable" \in Warned
        /\ (inp.fetch_timeout \/ inp.slo_err = "error" \/ inp.slo_tot = "error") =>
                ~found.slo /\ "slo_unavailable" \in Warned
        /\ \A q \in MetricQueries :
                (inp.metrics_timeout \/ inp.metrics[q] = "error") =>
                    {"metrics_timeout", "metrics_unavailable"} \cap Warned # {}

\* C8 (as stated): each capped list of a returned report is at most its configured cap
C8_ListsWithinConfiguredCaps ==
    anPc = "done" =>
        /\ Len(lists.ma) <= inp.caps.ma
        /\ Len(lists.cp) <= inp.caps.cp
        /\ Len(lists.rc) <= inp.caps.rc
        /\ Len(lists.cl) <= inp.caps.cl
        /\ Len(lists.gr) <= inp.caps.gr

\* C8 (amended): each capped list of a returned report is at most max(1, configured cap)
C8_ListsWithinCapsFlooredAtOne ==
    anPc = "done" =>
        /\ Len(lists.ma) <= Max(1, inp.caps.ma)
        /\ Len(lists.cp) <= Max(1, inp.caps.cp)
        /\ Len(lists.rc) <= Max(1, inp.caps.rc)
        /\ Len(lists.cl) <= Max(1, inp.caps.cl)
        /\ Len(lists.gr) <= Max(1, inp.caps.gr)

\* a returned report whose lists were all cut to a cap of 1 configured as 0
C8_Witness ==
    /\ anPc = "done"
    /\ \A f \in {"ma", "cp", "rc", "cl", "gr"} : inp.caps[f] = 0
    /\ Len(lists.ma) = 1 /\ Len(lists.cp) = 1 /\ Len(lists.rc) = 1
    /\ Len(lists.cl) = 1 /\ Len(lists.gr) = 1
    /\ "capped_metric_anomalies" \in Warned

\* the number of anomalies of metric m in the report
CountOf(m) == Cardinality({i \in 1..Len(lists.ma) : lists.ma[i].metric = m})

\* count / hours <= density + 1, with density in hundredths and the window in seconds
DensityWithinBound(m) == CountOf(m) * 360000 <= (inp.density + 100) * inp.duration

\* C9 (as stated): under a precision profile every metric of a returned report has
\* count / hours <= quality_max_anomaly_density_per_metric_per_hour + 1
C9_DensityBoundEveryWindow ==
    (anPc = "done" /\ is_precision(inp.profile)) => \A m \in 1..2 : DensityWithinBound(m)

\* C9 (amended): the bound holds when the density setting is positive and the window
\* is at least one hour long
C9_DensityBoundFromOneHour ==
    (anPc = "done" /\ is_precision(inp.profile) /\ inp.density > 0 /\ inp.duration >= 3600) =>
        \A m \in 1..2 : DensityWithinBound(m)

\* a returned report from which the density gate removed an anomaly in a one-hour window
C9_Witness ==
    /\ anPc = "done"
    /\ is_precision(inp.profile)
    /\ inp.density > 0
    /\ inp.duration >= 3600
    /\ "density_suppressed" \in Warned
    /\ CountOf(1) >= 1

\* the fetch stage and the metric batch of one analysis
NextFanout ==
    \/ IssueFetches
    \/ \E f \in Fetches, outcome \in {"returned", "raised"} : FetchReturns(f, outcome)
    \/ FetchesGathered
    \/ FetchTimeout
    \/ IssueMetricBatch
    \/ \E q \in BatchQueries : QueryAcquire(q)
    \/ \E q \in BatchQueries, outcome \in {"returned", "raised"} : QueryReturns(q, outcome)
    \/ MetricsGathered
    \/ MetricsTimeout

InitFanout ==
    FanoutStart /\ JobsIdle /\ StoreIdle /\ KeysIdle /\ WeightsIdle /\ AnalyzerIdle /\ DedupIdle /\ BaselineIdle /\ GrangerIdle /\ SeverityIdle /\ ReadyIdle /\ SloIdle /\ RegistryIdle /\ CorrelateIdle

SpecFanout == InitFanout /\ [][NextFanout]_vars

\* C13 (as stated): at most analyzer_max_parallel_metric_queries queries of the metric
\* batch are in flight at any moment
C13_InFlightAtMostConfigured == Cardinality(InFlight) <= fanCfg

\* C13 (amended): at most max(1, analyzer_max_parallel_metric_queries) queries of the
\* metric batch are in flight at any moment
C13_InFlightAtMostFlooredSetting == Cardinality(InFlight) <= Max(1, fanCfg)

\* the setting is 2, two queries are in flight and a third waits for the semaphore
C13_Witness ==
    /\ fanCfg = 2
    /\ Cardinality(InFlight) = 2
    /\ \E q \in BatchQueries : qPc[q] = "waiting"

\* C14: the metric batch is issued in the same fan-out as the logs, traces and SLO
\* queries: whenever one of those four fetches is in flight, the queries of the metric
\* batch have been started as well
C14_MetricBatchIssuedWithFetches ==
    (\E f \in Fetches : fetchPc[f] = "inflight") =>
        \A q \in BatchQueries : qPc[q] # "none"

\* C15: under a precision profile, when at least two root causes enter the quality
\* gate, no root cause with confidence below max(rca_min_confidence_display, 0.10)
\* is left by it
C15_NoLowConfidenceRootCauseRemains ==
    [][(anPc = "gate" /\ is_precision(inp.profile) /\ Len(lists.rc) >= 2) =>
            \A i \in 1..Len(lists'.rc) : lists'.rc[i].key >= Max(inp.min_display, 10)]_vars

\* C16: under a precision profile, when no root cause entering the quality gate carries
\* quality_min_corroboration_signals distinct signals, the gate leaves at most
\* quality_max_root_causes_without_multisignal root causes, and no root cause it drops
\* has a higher confidence than one it keeps
C16_UncorroboratedKeepsTopConfidence ==
    [][(/\ anPc = "gate"
        /\ is_precision(inp.profile)
        /\ \A i \in 1..Len(lists.rc) : lists.rc[i].sig < inp.min_corr) =>
            /\ Len(lists'.rc) <= inp.max_without
            /\ \A i \in 1..Len(lists.rc), j \in 1..Len(lists'.rc) :
                    lists.rc[i].key > lists'.rc[j].key =>
                        \E k \in 1..Len(lists'.rc) : lists'.rc[k] = lists.rc[i]]_vars

NextDedup ==
    \/ CallDedupe
    \/ \E k \in 1..MaxAnomalies : Reorder(k)
InitDedup ==
    DedupStart /\ JobsIdle /\ StoreIdle /\ KeysIdle /\ WeightsIdle /\ AnalyzerIdle /\ FanoutIdle /\ BaselineIdle /\ GrangerIdle /\ SeverityIdle /\ ReadyIdle /\ SloIdle /\ RegistryIdle /\ CorrelateIdle
SpecDedup == InitDedup /\ [][NextDedup]_vars

\* C17: for a fixed multiset of metric anomalies, _dedupe_metric_anomalies returns the
\* same set of anomalies for every order in which the list is presented
C17_SameSetForEveryOrder ==
    dedupPc = "called" => Elements(dedupOut) = dedupRef

NextBaseline ==
    \E n \in SampleSizes, lo \in Levels, hi \in Levels, step \in Steps, z \in {3},
       loaded \in BOOLEAN, saved \in BOOLEAN :
        ComputeAndPersist(n, lo, hi, step, z, loaded, saved)
InitBaseline ==
    /\ BaselineIdle /\ JobsIdle /\ StoreIdle /\ KeysIdle /\ WeightsIdle /\ AnalyzerIdle /\ GrangerIdle /\ SeverityIdle /\ ReadyIdle /\ SloIdle /\ RegistryIdle /\ CorrelateIdle
    /\ FanoutIdle /\ DedupIdle
SpecBaseline == InitBaseline /\ [][NextBaseline]_vars

\* C19: with a cached baseline of sample_count >= 20, compute_and_persist stores and
\* returns mean = 0.9*cached.mean + 0.1*fresh.mean, std = 0.9*cached.std + 0.1*fresh.std
\* and the bounds mean -/+ 3*std; otherwise it stores and returns the fresh baseline
C19_BlendsNineToOneOrTakesFresh ==
    \A f \in blLast.fresh, r \in blLast.result :
        /\ blStored = {r}
        /\ IF \E c \in blLast.cached : c.sample_count >= BLEND_MIN_SAMPLES
           THEN \A c \in blLast.cached :
                    /\ 10 * r.mean = 9 * c.mean + f.mean
                    /\ 10 * r.std = 9 * c.std + f.std
                    /\ r.lower = r.mean - 3 * r.std
                    /\ r.upper = r.mean + 3 * r.std
           ELSE r = f

\* C20: every Baseline returned by compute, by _blend or by compute_and_persist, and
\* every persisted one, has std > 0 and lower <= mean <= upper
C20_StdPositiveAndBoundsOrdered ==
    \A b \in blLast.fresh \cup blLast.result \cup blStored :
        b.std > 0 /\ b.lower <= b.mean /\ b.mean <= b.upper

\* C21: once a call of compute_and_persist has persisted its baseline, a further call
\* on the same samples leaves the persisted baseline unchanged
C21_RecomputationLeavesPersistedUnchanged ==
    [][(/\ blCalls' = blCalls + 1
        /\ blLast.result # {}
        /\ blStored = blLast.result
        /\ blLast'.samples = blLast.samples) => blStored' = blStored]_vars

NextGranger ==
    \/ \E c \in Analyses, fresh \in FreshResults : MergeLoad(c, fresh)
    \/ \E c \in Analyses : MergeSave(c)
InitGranger ==
    /\ GrangerIdle /\ JobsIdle /\ StoreIdle /\ KeysIdle /\ WeightsIdle /\ AnalyzerIdle /\ SeverityIdle /\ ReadyIdle /\ SloIdle /\ RegistryIdle /\ CorrelateIdle
    /\ FanoutIdle /\ DedupIdle /\ BaselineIdle
SpecGranger == InitGranger /\ [][NextGranger]_vars

\* the strength stored for a pair, 0 when the pair is not in the list
StoredStrength(p) ==
    IF \E i \in 1..Len(grStored) : grStored[i].pair = p
    THEN (CHOOSE r \in Elements(grStored) : r.pair = p).strength
    ELSE 0

\* C22: when no save_and_merge call is in progress, the stored strength of each pair
\* is the greatest strength ever submitted for it, and the stored list is sorted by
\* descending strength
C22_StoredIsMaxSubmittedAndSorted ==
    (\A c \in Analyses : grPc[c] = "idle") =>
        /\ \A p \in Pairs : StoredStrength(p) = grSubmitted[p]
        /\ \A i, j \in 1..Len(grStored) : i < j => grStored[i].strength >= grStored[j].strength

NextSeverity == ReportSeverity
InitSeverity ==
    /\ SeverityStart /\ JobsIdle /\ StoreIdle /\ KeysIdle /\ WeightsIdle /\ AnalyzerIdle /\ ReadyIdle /\ SloIdle /\ RegistryIdle /\ CorrelateIdle
    /\ FanoutIdle /\ DedupIdle /\ BaselineIdle /\ GrangerIdle
SpecSeverity == InitSeverity /\ [][NextSeverity]_vars

\* the report has none of the actionable signals and at least one predictive signal
PredictiveOnly ==
    /\ sevIn.metric_anomalies = <<>> /\ sevIn.log_bursts = <<>> /\ sevIn.log_patterns = <<>>
    /\ sevIn.service_latency = <<>> /\ sevIn.error_propagation = <<>>
    /\ sevIn.slo_alerts = <<>> /\ sevIn.root_causes = <<>>
    /\ (sevIn.forecasts # <<>> \/ sevIn.degradation_signals # <<>> \/ sevIn.change_points # <<>>)

\* C23: a report with predictive signals only has an overall_severity of at most
\* medium, and carries the warning whenever a signal above medium was lowered to it
C23_PredictiveOnlyAtMostMedium ==
    (sevPc = "done" /\ PredictiveOnly) =>
        /\ SEVERITY_WEIGHTS[sevReport.overall_severity] <= SEVERITY_WEIGHTS["medium"]
        /\ (\E i \in 1..Len(sevIn.forecasts) :
                SEVERITY_WEIGHTS[sevIn.forecasts[i]] > SEVERITY_WEIGHTS["medium"])
             => sevReport.analysis_warnings = <<"severity_capped_at_medium">>

C23_Witness ==
    /\ sevPc = "done"
    /\ PredictiveOnly
    /\ sevIn.forecasts = <<"medium", "critical">>
    /\ sevReport.overall_severity = "medium"
    /\ sevReport.analysis_warnings = <<"severity_capped_at_medium">>

NextReady ==
    \/ StartChecks
    \/ \E b \in Backends, outcome \in {"ok", "exception"} : WaitForEnds(b, outcome)
    \/ ChecksGathered
    \/ CancelChecks
    \/ ready
InitReady ==
    /\ ReadyStart /\ JobsIdle /\ StoreIdle /\ KeysIdle /\ WeightsIdle /\ AnalyzerIdle /\ SloIdle /\ RegistryIdle /\ CorrelateIdle
    /\ FanoutIdle /\ DedupIdle /\ BaselineIdle /\ GrangerIdle /\ SeverityIdle
SpecReady == InitReady /\ [][NextReady]_vars

\* C24: after the readiness check has finished, the flag is true and the endpoint
\* answers 200 only if every configured backend passed; if a check failed the flag is
\* false and the endpoint answers 503
C24_ReadyOnlyIfEveryBackendPassed ==
    (rdPc = "finished" /\ \E b \in checks(rdSettings) : rdResult[b] = "exception") =>
        /\ ~rdReady
        /\ rdResp.at = "finished" => (rdResp.code = 503 /\ ~rdResp.ready)

NextSlo == Evaluate
InitSlo ==
    /\ SloStart /\ JobsIdle /\ StoreIdle /\ KeysIdle /\ WeightsIdle /\ AnalyzerIdle /\ RegistryIdle /\ CorrelateIdle
    /\ FanoutIdle /\ DedupIdle /\ BaselineIdle /\ GrangerIdle /\ SeverityIdle /\ ReadyIdle
SpecSlo == InitSlo /\ [][NextSlo]_vars

\* 40 samples with error count 1 and total count 100 each, timestamps spanning 3600 s,
\* target availability 0.999
FortySamplesOnePercent ==
    /\ sloIn.error_counts = [i \in 1..40 |-> 1]
    /\ sloIn.total_counts = [i \in 1..40 |-> 100]
    /\ sloIn.ts[1] = 0 /\ sloIn.ts[40] = 3600
    /\ sloIn.target_availability = 999

\* C25 as stated: for these arguments evaluate returns an alert for window "1h" with
\* burn_rate >= 14.4 and severity critical
C25_OnePercentErrorsAlertCritical ==
    (sloPc = "returned" /\ FortySamplesOnePercent) =>
        \E k \in 1..Len(sloOut) : /\ sloOut[k].window_label = "1h"
                                  /\ sloOut[k].burn_rate >= 14400
                                  /\ sloOut[k].severity = "critical"

\* C25 amended: for these arguments evaluate returns no alert; and every alert returned
\* for window "1h" has burn_rate >= 14.4 and severity critical
C25_OnePercentErrorsNoAlert ==
    sloPc = "returned" =>
        /\ FortySamplesOnePercent => sloOut = <<>>
        /\ \A k \in 1..Len(sloOut) :
               sloOut[k].window_label = "1h" =>
                   (sloOut[k].burn_rate >= 14400 /\ sloOut[k].severity = "critical")

C25_Witness ==
    /\ sloPc = "returned"
    /\ FortySamplesOnePercent
    /\ sloOut = <<>>

\* C26: once a job's status is deleted it never changes to any other status
C26_DeletedStaysDeleted ==
    [][\A j \in Jobs : jobStatus[j] = DELETED => jobStatus'[j] = DELETED]_vars

\* What the scheduling of the job runner guarantees: asyncio.Semaphore wakes its waiters
\* in FIFO order (strong fairness of the acquisition), the thread pool runs every
\* submitted function, the event loop resumes every task whose await is done, the
\* analysis returns, raises or is timed out by wait_for, and delete_report runs on.
\* Requests (create_job, delete_report) and the teardown of the loop are not obliged.
FairJobs ==
    \A j \in Jobs :
        /\ SF_vars(AcquireSlot(j))
        /\ WF_vars(ThreadGetRow(j) \/ ThreadMarkRunning(j) \/ ThreadMarkCompleted(j)
                   \/ ThreadMarkFailed(j) \/ ThreadMarkCancelled(j))
        /\ WF_vars(ResumeGetRow(j) \/ ResumeMarkRunning(j) \/ ResumeFinish(j))
        /\ WF_vars(RunCompletes(j) \/ RunFails(j))
        /\ WF_vars(DeleteCancel(j))

SpecJobsFair == InitJobs /\ [][NextJobs]_vars /\ FairJobs

Terminal == {COMPLETED, FAILED, CANCELLED, DELETED}

JobsTerminateUnlessTornDown ==
    \A j \in Jobs : (jobStatus[j] \in {QUEUED, RUNNING}) ~> (jobStatus[j] \in Terminal \/ stopping)

NextRegistry ==
    \/ \E u \in Updaters, sg \in Signals, ok \in BOOLEAN : UpdateCached(u, sg, ok)
    \/ \E u \in Updaters : UpdateCallsLoad(u)
    \/ \E u \in Updaters : LoadReads(u)
    \/ \E u \in Updaters, sg \in Signals, ok \in BOOLEAN : LoadResumes(u, sg, ok)
    \/ \E u \in Updaters : SaveReturns(u)
InitRegistry ==
    /\ RegistryStart /\ JobsIdle /\ StoreIdle /\ KeysIdle /\ WeightsIdle /\ AnalyzerIdle /\ CorrelateIdle
    /\ FanoutIdle /\ DedupIdle /\ BaselineIdle /\ GrangerIdle /\ SeverityIdle /\ ReadyIdle
    /\ SloIdle
SpecRegistry == InitRegistry /\ [][NextRegistry]_vars

\* C28: after n update calls of one tenant have completed, the tenant's update_count, in
\* memory and as persisted, has increased by exactly n, also when the calls ran
\* concurrently and the state was not loaded before the first of them
C28_UpdateCountIncreasesByCalls ==
    LET n == Cardinality({u \in Updaters : rgPc[u] = "done"})
    IN  (n > 0 /\ \A u \in Updaters : rgPc[u] \in {"idle", "done"}) =>
            /\ rgObj[rgStates].count = rgStart + n
            /\ rgStored.count = rgStart + n

InitStoreDeletes ==
    /\ DeleteStart /\ JobsIdle /\ KeysIdle /\ WeightsIdle /\ AnalyzerIdle /\ FanoutIdle /\ CorrelateIdle
    /\ DedupIdle /\ BaselineIdle /\ GrangerIdle /\ SeverityIdle /\ ReadyIdle /\ SloIdle
    /\ RegistryIdle
SpecStoreDeletes == InitStoreDeletes /\ [][NextStore]_vars

\* C29: after redis_delete(key) has returned, redis_get(key) never returns a value that
\* was written before that delete, unless the key has been written again
C29_GetAfterDeleteReturnsNothingOlder ==
    (lastDone.kind = "get" /\ delHist.deleted[lastDone.key]) =>
        lastDone.result \notin delHist.before[lastDone.key]

NextCorrelate == Correlate
InitCorrelate ==
    /\ CorrelateStart /\ JobsIdle /\ StoreIdle /\ KeysIdle /\ WeightsIdle /\ AnalyzerIdle
    /\ FanoutIdle /\ DedupIdle /\ BaselineIdle /\ GrangerIdle /\ SeverityIdle /\ ReadyIdle
    /\ SloIdle /\ RegistryIdle
SpecCorrelate == InitCorrelate /\ [][NextCorrelate]_vars

\* the number of returned events that include position i of the given input list
EventsWith(field, i) ==
    Cardinality({k \in 1..Len(corOut) : i \in ValuesOf(corOut[k][field])})

\* C30: each metric anomaly and each log burst is included in at most one of the
\* CorrelatedEvents returned by one call of correlate
C30_EachSignalInAtMostOneEvent ==
    corPc = "returned" =>
        /\ \A i \in 1..Len(corIn.metric_anomalies) : EventsWith("metric_anomalies", i) <= 1
        /\ \A i \in 1..Len(corIn.log_bursts) : EventsWith("log_bursts", i) <= 1

====
